---- MODULE Spec2Model ----
(***************************************************************************)
(* Propositional formulae, inference rules, proofs and proof maneuvers of  *)
(* the repository (propositions/syntax.py, proofs.py, deduction.py,        *)
(* tautology.py, semantics.py).                                            *)
(*                                                                         *)
(* A Formula is a tuple: <<root>> for a variable or a constant,            *)
(* <<"~", first>> for a negation and <<op, first, second>> for a binary    *)
(* formula.  Strings are TLA+ strings; Python's s[i:j] is SubSeq(s,i+1,j). *)
(* Line indices inside proofs are Python's 0-based integers.               *)
(***************************************************************************)
EXTENDS Integers, Sequences, FiniteSets, TLC

VARIABLES op, proof, arg, res

vars == <<op, proof, arg, res>>

-----------------------------------------------------------------------------
(* propositions/syntax.py : token classifier                                *)

LowerPZ == {"p", "q", "r", "s", "t", "u", "v", "w", "x", "y", "z"}

Digits == {"0", "1", "2", "3", "4", "5", "6", "7", "8", "9"}

\* str.isdigit(): non-empty and every character is a digit
isdigit(s) == Len(s) > 0 /\ \A i \in 1..Len(s) : SubSeq(s, i, i) \in Digits

is_variable(s) ==
    /\ SubSeq(s, 1, 1) \in LowerPZ
    /\ (Len(s) = 1 \/ isdigit(SubSeq(s, 2, Len(s))))

is_constant(s) == s = "T" \/ s = "F"

is_unary(s) == s = "~"

is_binary(s) == s \in {"&", "|", "->", "+", "<->", "-&", "-|"}

-----------------------------------------------------------------------------
(* propositions/syntax.py : class Formula                                   *)

FormulaLeaf(root) == <<root>>

FormulaUnary(root, first) == <<root, first>>

FormulaBinary(root, first, second) == <<root, first, second>>

Root(f) == f[1]

First(f) == f[2]

Second(f) == f[3]

Implies(f, g) == FormulaBinary("->", f, g)

Not(f) == FormulaUnary("~", f)

RECURSIVE Repr(_)
Repr(f) ==
    IF is_variable(Root(f)) \/ is_constant(Root(f)) THEN Root(f)
    ELSE IF is_unary(Root(f)) THEN Root(f) \o Repr(First(f))
    ELSE "(" \o Repr(First(f)) \o Root(f) \o Repr(Second(f)) \o ")"

RECURSIVE FormulaVariables(_)
FormulaVariables(f) ==
    IF is_constant(Root(f)) THEN {}
    ELSE IF is_variable(Root(f)) THEN {Root(f)}
    ELSE IF is_unary(Root(f)) THEN FormulaVariables(First(f))
    ELSE FormulaVariables(First(f)) \cup FormulaVariables(Second(f))

RECURSIVE substitute_variables(_, _)
substitute_variables(f, substitution_map) ==
    IF Root(f) \in DOMAIN substitution_map THEN substitution_map[Root(f)]
    ELSE IF is_unary(Root(f))
         THEN FormulaUnary(Root(f), substitute_variables(First(f), substitution_map))
    ELSE IF is_binary(Root(f))
         THEN FormulaBinary(Root(f),
                            substitute_variables(First(f), substitution_map),
                            substitute_variables(Second(f), substitution_map))
    ELSE FormulaLeaf(Root(f))

-----------------------------------------------------------------------------
(* propositions/syntax.py : Formula.parse_prefix, is_formula, parse         *)

\* the outcome of a call: a returned value or a raised exception
Returns(v) == [exc |-> "none", val |-> v]

Raises(e) == [exc |-> e, val |-> FALSE]

\* Python's s[a:b]: negative bounds count from the end, bounds are clipped
PySlice(s, a, b) ==
    LET n == Len(s)
        lo == IF a < 0 THEN (IF n + a < 0 THEN 0 ELSE n + a)
              ELSE IF a > n THEN n ELSE a
        hi == IF b < 0 THEN (IF n + b < 0 THEN 0 ELSE n + b)
              ELSE IF b > n THEN n ELSE b
    IN  IF lo < hi THEN SubSeq(s, lo + 1, hi) ELSE ""

\* s[a:]
PyFrom(s, a) == PySlice(s, a, Len(s))

\* s[i] for an index that is in range, negative indices counting from the end
PyChar(s, i) == IF i >= 0 THEN SubSeq(s, i + 1, i + 1)
                ELSE SubSeq(s, Len(s) + i + 1, Len(s) + i + 1)

\* the outcomes of parse_prefix: (formula, rest), (None, message), or a raise
ParseOk(formula, rest) == [kind |-> "ok", formula |-> formula, rest |-> rest]

ParseNone(message) == [kind |-> "none", formula |-> <<"None">>, rest |-> message]

ParseRaise(e) == [kind |-> "raise", formula |-> <<"None">>, rest |-> e]

RECURSIVE ParseVarEnd(_, _)
\* __parse_var: the index after the digits that follow position index - 1
ParseVarEnd(s, index) ==
    IF index < Len(s) /\ PyChar(s, index) \in Digits THEN ParseVarEnd(s, index + 1)
    ELSE index

\* the operator is recorded whatever its nesting depth
OperatorIndexAnyDepth(st, index) == index

\* "if count_par == 1: index_operator = index"
OperatorIndex(st, index) == IF st.count_par = 1 THEN index ELSE st.index_operator

\* one iteration of the while loop of parse_prefix, before "index += 1"
ScanStep(s, st) ==
    LET index == st.index
        c == PyChar(s, index)
    IN  IF c = "(" THEN [st EXCEPT !.open_number = @ + 1, !.count_par = @ + 1]
        ELSE IF c = ")"
            THEN [st EXCEPT !.close_number = @ + 1, !.count_par = @ - 1,
                            !.index_close = index]
        ELSE IF is_binary(c)
            THEN [st EXCEPT !.operator_number = @ + 1,
                            !.index_operator = OperatorIndex(st, index)]
        ELSE IF index + 1 < Len(s)
                /\ PySlice(s, index, index + 2) \in {"->", "-&", "-|"}
            THEN [st EXCEPT !.operator_number = @ + 1, !.index = index + 1,
                            !.index_operator = OperatorIndex(st, index + 1)]
        ELSE IF index + 2 < Len(s) /\ PySlice(s, index, index + 3) = "<->"
            THEN [st EXCEPT !.operator_number = @ + 1, !.index = index + 1,
                            !.index_operator = OperatorIndex(st, index + 1)]
        ELSE IF index + 1 < Len(s) /\ c = "-"
                /\ (\/ PyChar(s, index + 1) # ">"
                    \/ PyChar(s, index + 1) # "&"
                    \/ PyChar(s, index + 1) # "|")
            THEN [st EXCEPT !.error = TRUE]
        ELSE IF index + 2 < Len(s) /\ c = "<"
                /\ (PyChar(s, index + 1) # "-" \/ PyChar(s, index + 2) # ">")
            THEN [st EXCEPT !.error = TRUE]
        ELSE st

RECURSIVE Scan(_, _)
\* the while loop of parse_prefix
Scan(s, st) ==
    IF st.index >= Len(s) THEN st
    ELSE LET st1 == ScanStep(s, st)
             st2 == [st1 EXCEPT !.index = @ + 1]
         IN  IF st1.error THEN st1
             ELSE IF st2.open_number = st2.close_number THEN st2
             ELSE Scan(s, st2)

ScanInit ==
    [index |-> 0, open_number |-> 0, close_number |-> 0, operator_number |-> 0,
     index_close |-> 0, index_operator |-> 0, count_par |-> 0, error |-> FALSE]

\* Formula(root, first, second) on the results of two recursive calls, [0] of
\* which is None when the call failed; the constructor asserts the operands
\* fit the root
FormulaOfParsed(root, first, second, to_return) ==
    IF first.kind = "raise" THEN first
    ELSE IF second.kind = "raise" THEN second
    ELSE IF is_variable(root) \/ is_constant(root)
        THEN IF first.kind = "none" /\ second.kind = "none"
                THEN ParseOk(FormulaLeaf(root), to_return)
             ELSE ParseRaise("AssertionError")
    ELSE IF is_unary(root)
        THEN IF first.kind = "ok" /\ second.kind = "none"
                THEN ParseOk(FormulaUnary(root, first.formula), to_return)
             ELSE ParseRaise("AssertionError")
    ELSE IF is_binary(root) /\ first.kind = "ok" /\ second.kind = "ok"
        THEN ParseOk(FormulaBinary(root, first.formula, second.formula), to_return)
    ELSE ParseRaise("AssertionError")

RECURSIVE parse_prefix(_)
parse_prefix(s) ==
    IF Len(s) = 0 THEN ParseNone("Empty string")
    ELSE IF Len(s) = 1
        THEN IF is_variable(s) \/ is_constant(s) THEN ParseOk(FormulaLeaf(s), "")
             ELSE ParseNone("Invalid variable")
    ELSE IF is_unary(PyChar(s, 0))
        THEN LET formula == parse_prefix(PyFrom(s, 1))
             IN  IF formula.kind = "raise" THEN formula
                 ELSE IF formula.kind = "none" THEN ParseNone("Unary signe is alone")
                 ELSE ParseOk(FormulaUnary("~", formula.formula), formula.rest)
    ELSE IF is_variable(PyChar(s, 0))
        THEN LET end == ParseVarEnd(s, 1)
             IN  ParseOk(FormulaLeaf(PySlice(s, 0, end)), PyFrom(s, end))
    ELSE IF is_constant(PyChar(s, 0))
        THEN ParseOk(FormulaLeaf(PyChar(s, 0)), PyFrom(s, 1))
    ELSE LET st == Scan(s, ScanInit)
             io == st.index_operator
             ic == st.index_close
             to_return == PyFrom(s, ic + 1)
         IN  IF st.error THEN ParseNone("Not a valid operator")
             ELSE IF \/ st.open_number # st.operator_number
                     \/ st.close_number # st.operator_number
                 THEN ParseNone("Not same operator number than () number")
             ELSE IF PyChar(s, io) = ">"
                 THEN FormulaOfParsed("->", parse_prefix(PySlice(s, 1, io - 1)),
                                      parse_prefix(PySlice(s, io + 1, ic)), to_return)
             ELSE IF PyChar(s, io) = "-"
                 THEN FormulaOfParsed("<->", parse_prefix(PySlice(s, 1, io - 1)),
                                      parse_prefix(PySlice(s, io + 2, ic)), to_return)
             ELSE IF PyChar(s, io) = "&" /\ PyChar(s, io - 1) = "-"
                 THEN FormulaOfParsed("-&", parse_prefix(PySlice(s, 1, io - 1)),
                                      parse_prefix(PySlice(s, io + 1, ic)), to_return)
             ELSE IF PyChar(s, io) = "|" /\ PyChar(s, io - 1) = "-"
                 THEN FormulaOfParsed("-|", parse_prefix(PySlice(s, 1, io - 1)),
                                      parse_prefix(PySlice(s, io + 1, ic)), to_return)
             ELSE FormulaOfParsed(PyChar(s, io), parse_prefix(PySlice(s, 1, io)),
                                  parse_prefix(PySlice(s, io + 1, ic)), to_return)

\* Formula.is_formula; a raise of parse_prefix propagates
is_formula(s) ==
    LET formula_parse == parse_prefix(s)
    IN  IF formula_parse.kind = "raise" THEN Raises(formula_parse.rest)
        ELSE Returns(formula_parse.kind = "ok" /\ formula_parse.rest = "")

\* Formula.parse: asserts is_formula(s), then returns parse_prefix(s)[0]
parse(s) ==
    LET formula_parse == parse_prefix(s)
    IN  IF formula_parse.kind = "raise" THEN Raises(formula_parse.rest)
        ELSE IF ~(formula_parse.kind = "ok" /\ formula_parse.rest = "")
            THEN Raises("AssertionError")
        ELSE Returns(formula_parse.formula)

-----------------------------------------------------------------------------
(* propositions/proofs.py : class InferenceRule                             *)

InferenceRule(assumptions, conclusion) ==
    [assumptions |-> assumptions, conclusion |-> conclusion]

RuleVariables(rule) ==
    FormulaVariables(rule.conclusion)
    \cup UNION {FormulaVariables(rule.assumptions[i]) : i \in 1..Len(rule.assumptions)}

EmptyMap == [v \in {} |-> <<"T">>]

\* Python's None as a specialization map, and a dict
NoneMap == [is_none |-> TRUE, map |-> EmptyMap]

SomeMap(m) == [is_none |-> FALSE, map |-> m]

specialize(rule, specialization_map) ==
    InferenceRule(
        [i \in 1..Len(rule.assumptions) |->
            substitute_variables(rule.assumptions[i], specialization_map)],
        substitute_variables(rule.conclusion, specialization_map))

\* merge_specialization_maps keeping the first map's value on a conflict
MergeIgnoringConflicts(m1, m2) ==
    IF m1.is_none \/ m2.is_none THEN NoneMap
    ELSE SomeMap([v \in DOMAIN m1.map \cup DOMAIN m2.map |->
                    IF v \in DOMAIN m1.map THEN m1.map[v] ELSE m2.map[v]])

merge_specialization_maps(m1, m2) ==
    IF m1.is_none \/ m2.is_none THEN NoneMap
    ELSE IF \E v \in DOMAIN m1.map \cap DOMAIN m2.map : m1.map[v] # m2.map[v]
         THEN NoneMap
    ELSE SomeMap([v \in DOMAIN m1.map \cup DOMAIN m2.map |->
                    IF v \in DOMAIN m1.map THEN m1.map[v] ELSE m2.map[v]])

RECURSIVE formula_specialization_map(_, _)
formula_specialization_map(general, specialization) ==
    IF is_variable(Root(general))
        THEN SomeMap([v \in {Root(general)} |-> specialization])
    ELSE IF is_constant(Root(general)) /\ Root(general) = Root(specialization)
        THEN SomeMap(EmptyMap)
    ELSE IF Root(general) # Root(specialization) THEN NoneMap
    ELSE IF is_unary(Root(general))
        THEN formula_specialization_map(First(general), First(specialization))
    ELSE merge_specialization_maps(
            formula_specialization_map(First(general), First(specialization)),
            formula_specialization_map(Second(general), Second(specialization)))

RECURSIVE MergeAssumptionMaps(_, _, _, _)
\* the loop of specialization_map over the assumptions, from index i on
MergeAssumptionMaps(rule, specialization, i, spe_map) ==
    IF i > Len(rule.assumptions) THEN spe_map
    ELSE MergeAssumptionMaps(rule, specialization, i + 1,
            merge_specialization_maps(spe_map,
                formula_specialization_map(rule.assumptions[i],
                                           specialization.assumptions[i])))

specialization_map(rule, specialization) ==
    IF Len(rule.assumptions) # Len(specialization.assumptions) THEN NoneMap
    ELSE merge_specialization_maps(
            MergeAssumptionMaps(rule, specialization, 1, SomeMap(EmptyMap)),
            formula_specialization_map(rule.conclusion, specialization.conclusion))

is_specialization_of(specialization, general) ==
    ~ specialization_map(general, specialization).is_none

-----------------------------------------------------------------------------
(* propositions/proofs.py : class Proof                                     *)

NoRule == InferenceRule(<<>>, <<"None">>)

\* Proof.Line(formula): a line justified as an assumption
AssumptionLine(formula) ==
    [formula |-> formula, is_assumption |-> TRUE, rule |-> NoRule, assumptions |-> <<>>]

\* Proof.Line(formula, rule, assumptions)
RuleLine(formula, rule, assumptions) ==
    [formula |-> formula, is_assumption |-> FALSE, rule |-> rule, assumptions |-> assumptions]

Proof(statement, rules, lines) ==
    [statement |-> statement, rules |-> rules, lines |-> lines]

\* Python's tuple indexing lines[index]: negative indices count from the end
InRange(seq, index) == -Len(seq) <= index /\ index < Len(seq)

PyAt(seq, index) ==
    IF index >= 0 THEN seq[index + 1] ELSE seq[Len(seq) + index + 1]

\* rule_for_line of a line that is not an assumption (0-based line_number)
rule_for_line(p, line_number) ==
    LET my_line == p.lines[line_number + 1]
    IN  InferenceRule(
            [k \in 1..Len(my_line.assumptions) |->
                PyAt(p.lines, my_line.assumptions[k]).formula],
            my_line.formula)

is_line_valid(p, line_number) ==
    LET my_line == p.lines[line_number + 1]
    IN  IF my_line.is_assumption
            THEN Returns(\E i \in 1..Len(p.statement.assumptions) :
                            p.statement.assumptions[i] = my_line.formula)
        ELSE IF my_line.rule \notin p.rules THEN Returns(FALSE)
        ELSE IF \E k \in 1..Len(my_line.assumptions) :
                    my_line.assumptions[k] >= line_number
            THEN Returns(FALSE)
        ELSE IF \E k \in 1..Len(my_line.assumptions) :
                    ~ InRange(p.lines, my_line.assumptions[k])
            THEN Raises("IndexError")
        ELSE Returns(is_specialization_of(rule_for_line(p, line_number), my_line.rule))

is_valid(p) ==
    LET bad == {n \in 0..(Len(p.lines) - 1) : is_line_valid(p, n) # Returns(TRUE)}
    IN  IF bad # {}
            THEN LET n == CHOOSE m \in bad : \A k \in bad : m <= k
                 IN  IF is_line_valid(p, n).exc # "none"
                        THEN is_line_valid(p, n) ELSE Returns(FALSE)
        ELSE IF Len(p.lines) = 0 THEN Raises("IndexError")
        ELSE Returns(p.lines[Len(p.lines)].formula = p.statement.conclusion)

IsValid(p) == is_valid(p) = Returns(TRUE)

-----------------------------------------------------------------------------
(* propositions/proofs.py : prove_specialization, inline_proof              *)

\* the lines are copied without substituting their formulae
ProveSpecializationCopyingLines(p, specialization) ==
    Proof(specialization, p.rules, p.lines)

prove_specialization(p, specialization) ==
    LET my_map == specialization_map(p.statement, specialization)
    IN  Proof(specialization, p.rules,
              [i \in 1..Len(p.lines) |->
                 LET line == p.lines[i]
                 IN  IF line.is_assumption
                        THEN AssumptionLine(substitute_variables(line.formula, my_map.map))
                     ELSE RuleLine(substitute_variables(line.formula, my_map.map),
                                   line.rule, line.assumptions)])

\* the line of the result that stands for one line of the specialized lemma
\* proof.  A Line never equals a Formula, so the test
\* "line in main_proof.statement.assumptions" of the code is always False.
InlinedLine(main_proof, line_number, line) ==
    IF line.is_assumption
        THEN LET found == {c \in 0..(line_number - 1) :
                              /\ c < Len(main_proof.lines)
                              /\ main_proof.lines[c + 1].formula = line.formula
                              /\ ~ main_proof.lines[c + 1].is_assumption}
             IN  IF found = {} THEN line
                 ELSE LET c == CHOOSE m \in found : \A k \in found : k <= m
                          proof_to_use == main_proof.lines[c + 1]
                      IN  RuleLine(line.formula, proof_to_use.rule,
                                   proof_to_use.assumptions)
    ELSE RuleLine(line.formula, line.rule,
                  [i \in 1..Len(line.assumptions) |-> line.assumptions[i] + line_number])

\* a line of main_proof after line_number, its citations shifted
ShiftedLine(line, line_number, add_lines) ==
    IF line.is_assumption THEN line
    ELSE RuleLine(line.formula, line.rule,
                  [i \in 1..Len(line.assumptions) |->
                      IF line.assumptions[i] >= line_number
                          THEN line.assumptions[i] + add_lines - 1
                      ELSE line.assumptions[i]])

inline_proof_once(main_proof, line_number, lemma_proof) ==
    LET lemma_lines == prove_specialization(lemma_proof,
                                            rule_for_line(main_proof, line_number))
        add_lines == Len(lemma_lines.lines)
        new_lines ==
            SubSeq(main_proof.lines, 1, line_number)
            \o [i \in 1..add_lines |->
                   InlinedLine(main_proof, line_number, lemma_lines.lines[i])]
            \o [i \in 1..(Len(main_proof.lines) - line_number - 1) |->
                   ShiftedLine(main_proof.lines[line_number + 1 + i], line_number,
                               add_lines)]
    IN  Proof(main_proof.statement, main_proof.rules \cup lemma_proof.rules, new_lines)

RECURSIVE InlineLoop(_, _, _)
\* the while loop of inline_proof from index on; inline_proof_once asserts
\* that the rule of the line it replaces is lemma_proof.statement
InlineLoop(main_proof, lemma_proof, index) ==
    IF index >= Len(main_proof.lines) THEN Returns(main_proof)
    ELSE IF /\ ~ main_proof.lines[index + 1].is_assumption
            /\ is_specialization_of(rule_for_line(main_proof, index),
                                    lemma_proof.statement)
        THEN IF main_proof.lines[index + 1].rule # lemma_proof.statement
                THEN Raises("AssertionError")
             ELSE LET working_proof == inline_proof_once(main_proof, index, lemma_proof)
                  IN  InlineLoop(Proof(working_proof.statement,
                                       working_proof.rules \ {lemma_proof.statement},
                                       working_proof.lines),
                                 lemma_proof, index + Len(lemma_proof.lines))
    ELSE InlineLoop(main_proof, lemma_proof, index + 1)

inline_proof(main_proof, lemma_proof) == InlineLoop(main_proof, lemma_proof, 0)

-----------------------------------------------------------------------------
(* propositions/axiomatic_systems.py : the axiom catalogue                  *)

P == FormulaLeaf("p")

Q == FormulaLeaf("q")

R0 == FormulaLeaf("r")

MP == InferenceRule(<<P, Implies(P, Q)>>, Q)

I0 == InferenceRule(<<>>, Implies(P, P))

I1 == InferenceRule(<<>>, Implies(Q, Implies(P, Q)))

D == InferenceRule(<<>>, Implies(Implies(P, Implies(Q, R0)),
                                 Implies(Implies(P, Q), Implies(P, R0))))

I2 == InferenceRule(<<>>, Implies(Not(P), Implies(P, Q)))

N == InferenceRule(<<>>, Implies(Implies(Not(Q), Not(P)), Implies(P, Q)))

NI == InferenceRule(<<>>, Implies(P, Implies(Not(Q), Not(Implies(P, Q)))))

NN == InferenceRule(<<>>, Implies(P, Not(Not(P))))

R == InferenceRule(<<>>, Implies(Implies(Q, P), Implies(Implies(Not(Q), P), P)))

AXIOMATIC_SYSTEM == {MP, I0, I1, D, I2, N, NI, NN, R}

-----------------------------------------------------------------------------
(* propositions/deduction.py                                                *)

prove_corollary(antecedent_proof, consequent, conditional) ==
    LET n == Len(antecedent_proof.lines)
        my_map == formula_specialization_map(Second(conditional.conclusion), consequent)
        myLines == antecedent_proof.lines \o
                   << RuleLine(specialize(conditional, my_map.map).conclusion,
                               conditional, <<>>),
                      RuleLine(consequent, MP, <<n - 1, n>>) >>
    IN  Proof(InferenceRule(antecedent_proof.statement.assumptions, consequent),
              antecedent_proof.rules \cup {MP, conditional},
              myLines)

combine_proofs(antecedent1_proof, antecedent2_proof, consequent, double_conditional) ==
    LET my_map_1 == formula_specialization_map(First(double_conditional.conclusion),
                        antecedent1_proof.statement.conclusion)
        my_map_2 == formula_specialization_map(
                        Second(Second(double_conditional.conclusion)), consequent)
        my_map == merge_specialization_maps(my_map_1, my_map_2)
        instance == specialize(double_conditional, my_map.map).conclusion
        num == Len(antecedent1_proof.lines)
        lines2 == [i \in 1..Len(antecedent2_proof.lines) |->
                     LET line == antecedent2_proof.lines[i]
                     IN  IF ~ line.is_assumption
                            THEN RuleLine(line.formula, line.rule,
                                     [k \in 1..Len(line.assumptions) |->
                                         line.assumptions[k] + num + 1])
                         ELSE line]
        num2 == num + 1 + Len(antecedent2_proof.lines)
        lines == antecedent1_proof.lines
                 \o << RuleLine(instance, double_conditional, <<>>) >>
                 \o lines2
                 \o << RuleLine(Second(instance), MP, <<num - 1, num>>),
                       RuleLine(Second(Second(instance)), MP, <<num2 - 1, num2>>) >>
    IN  Proof(InferenceRule(antecedent1_proof.statement.assumptions, consequent),
              (antecedent1_proof.rules \cup antecedent2_proof.rules)
                  \cup {double_conditional},
              lines)

\* the lines one line of the given proof contributes to remove_assumption's
\* result, given the number of lines produced so far
RemovedLine(p, index, my_len, proof_to_newProof) ==
    LET working_assumption == p.statement.assumptions[Len(p.statement.assumptions)]
        line == p.lines[index + 1]
        lifted == Implies(working_assumption, line.formula)
    IN  IF line.formula = working_assumption
            THEN IF index # 0
                    THEN << RuleLine(Implies(working_assumption, working_assumption),
                                     I0, <<>>) >>
                 ELSE <<>>
        ELSE IF line.is_assumption \/ Len(line.assumptions) = 0
            THEN << line,
                    RuleLine(Implies(line.formula, lifted), I1, <<>>),
                    RuleLine(lifted, MP, <<my_len, my_len + 1>>) >>
        ELSE LET assumption_in_use == PyAt(p.lines, line.assumptions[1]).formula
                 first_part == lifted
                 scd_part == Implies(Implies(working_assumption, assumption_in_use),
                                     first_part)
                 d_first == Implies(assumption_in_use, line.formula)
                 d_scd == Implies(working_assumption, d_first)
             IN  << RuleLine(Implies(d_scd, scd_part), D, <<>>),
                    RuleLine(scd_part, MP,
                             <<PyAt(proof_to_newProof, line.assumptions[2]), my_len>>),
                    RuleLine(first_part, MP,
                             <<PyAt(proof_to_newProof, line.assumptions[1]),
                               my_len + 1>>) >>

\* RemovedIndex recording the index of the I1/D line instead of the lifted line
RemovedIndexOffByOne(p, index, my_len) ==
    LET working_assumption == p.statement.assumptions[Len(p.statement.assumptions)]
        line == p.lines[index + 1]
    IN  IF line.formula = working_assumption THEN 0 ELSE my_len + 1

\* the index appended to proof_to_newProof for that line
RemovedIndex(p, index, my_len) ==
    LET working_assumption == p.statement.assumptions[Len(p.statement.assumptions)]
        line == p.lines[index + 1]
    IN  IF line.formula = working_assumption THEN 0 ELSE my_len + 2

RECURSIVE RemoveLoop(_, _, _, _)
\* the loop of remove_assumption over the lines of the proof, from index on
RemoveLoop(p, index, my_lines, proof_to_newProof) ==
    IF index >= Len(p.lines) THEN my_lines
    ELSE RemoveLoop(p, index + 1,
            my_lines \o RemovedLine(p, index, Len(my_lines), proof_to_newProof),
            Append(proof_to_newProof, RemovedIndex(p, index, Len(my_lines))))

remove_assumption(p) ==
    LET working_assumption == p.statement.assumptions[Len(p.statement.assumptions)]
        my_assumptioons == SelectSeq(p.statement.assumptions,
                                     LAMBDA ass : ass # working_assumption)
        first_line == RuleLine(Implies(working_assumption, working_assumption), I0, <<>>)
        my_lines == RemoveLoop(p, 0, <<first_line>>, <<>>)
        ccl == Implies(working_assumption, p.statement.conclusion)
    IN  Proof(InferenceRule(my_assumptioons, ccl),
              p.rules \cup {I0, I1, MP, D},
              my_lines)

proof_from_inconsistency(proof_of_affirmation, proof_of_negation, conclusion) ==
    combine_proofs(proof_of_negation, proof_of_affirmation, conclusion, I2)

\* the four lines prove_by_contradiction appends after num lines: the instance
\* of N, its consequent by MP, the instance of I0 and the formula by MP
ContradictionLines(scd_part, first_part, i0_in_use, formula, num) ==
    << RuleLine(scd_part, N, <<>>),
       RuleLine(first_part, MP, <<num - 1, num>>),
       RuleLine(i0_in_use, I0, <<>>),
       RuleLine(formula, MP, <<num + 2, num + 1>>) >>

\* my_rules of prove_by_contradiction
ContradictionRules == {MP, I0, I1, D, N, NI}

\* prove_by_contradiction once remove_assumption has given working_proof
ContradictionOfRemoved(p, working_proof, last_assump) ==
    Proof(InferenceRule(SubSeq(p.statement.assumptions, 1,
                               Len(p.statement.assumptions) - 1),
                        First(last_assump)),
          ContradictionRules,
          working_proof.lines
          \o ContradictionLines(
                 Implies(working_proof.statement.conclusion,
                         Implies(First(Second(working_proof.statement.conclusion)),
                                 First(last_assump))),
                 Implies(First(Second(working_proof.statement.conclusion)),
                         First(last_assump)),
                 First(Second(working_proof.statement.conclusion)),
                 First(last_assump),
                 Len(working_proof.lines)))

prove_by_contradiction(p) ==
    ContradictionOfRemoved(p, remove_assumption(p),
                           p.statement.assumptions[Len(p.statement.assumptions)])

-----------------------------------------------------------------------------
(* propositions/semantics.py and propositions/tautology.py                  *)

\* the characters of variable names in the order of their code points
CharOrder == "0123456789pqrstuvwxyz"

Ord(c) == CHOOSE i \in 1..Len(CharOrder) : SubSeq(CharOrder, i, i) = c

RECURSIVE StrLess(_, _)
\* Python's a < b on strings
StrLess(a, b) ==
    IF a = "" THEN b # ""
    ELSE IF b = "" THEN FALSE
    ELSE IF SubSeq(a, 1, 1) = SubSeq(b, 1, 1)
        THEN StrLess(SubSeq(a, 2, Len(a)), SubSeq(b, 2, Len(b)))
    ELSE Ord(SubSeq(a, 1, 1)) < Ord(SubSeq(b, 1, 1))

RECURSIVE sorted(_)
\* Python's sorted on a set of strings
sorted(S) ==
    IF S = {} THEN <<>>
    ELSE LET least == CHOOSE x \in S : \A y \in S \ {x} : StrLess(x, y)
         IN  <<least>> \o sorted(S \ {least})

RECURSIVE evaluate(_, _)
evaluate(formula, model) ==
    IF is_variable(Repr(formula)) THEN model[Root(formula)]
    ELSE IF is_constant(Repr(formula)) THEN Root(formula) = "T"
    ELSE IF is_unary(Root(formula)) THEN ~ evaluate(First(formula), model)
    ELSE LET first_bool == evaluate(First(formula), model)
             secd_bool == evaluate(Second(formula), model)
         IN  CASE Root(formula) = "|" -> first_bool \/ secd_bool
               [] Root(formula) = "&" -> first_bool /\ secd_bool
               [] Root(formula) = "->" -> ~ first_bool \/ secd_bool
               [] Root(formula) = "-|" -> ~ (first_bool \/ secd_bool)
               [] Root(formula) = "-&" -> ~ (first_bool /\ secd_bool)
               [] Root(formula) = "+" -> first_bool # secd_bool
               [] Root(formula) = "<->" -> first_bool = secd_bool

RECURSIVE product(_)
\* list(itertools.product([False, True], repeat = n)): the tuples of n truth
\* values, the rightmost element advancing on every step
product(n) ==
    IF n = 0 THEN << <<>> >>
    ELSE LET shorter == product(n - 1)
         IN  [k \in 1..(2 * Len(shorter)) |->
                IF k <= Len(shorter) THEN <<FALSE>> \o shorter[k]
                ELSE <<TRUE>> \o shorter[k - Len(shorter)]]

\* the dictionary that gives the last element of the tuple to the first variable
DictOfCombinationReversed(variables, combi) ==
    [var \in {variables[index] : index \in 1..Len(variables)} |->
        combi[Len(variables) + 1 - CHOOSE index \in 1..Len(variables) :
                                       variables[index] = var]]

\* the dictionary filled by "dict_combi[var] = combi[index]" for the variables
\* in order: a later assignment to the same key overwrites an earlier one
DictOfCombination(variables, combi) ==
    [var \in {variables[index] : index \in 1..Len(variables)} |->
        combi[CHOOSE index \in 1..Len(variables) :
                 /\ variables[index] = var
                 /\ \A later \in (index + 1)..Len(variables) : variables[later] # var]]

\* the keys of that dictionary in the order "for var in model" lists them:
\* every variable once, at the place of its first assignment
DictKeysInOrder(variables) ==
    LET firsts == {index \in 1..Len(variables) :
                      \A earlier \in 1..(index - 1) :
                          variables[earlier] # variables[index]}
    IN  [k \in 1..Cardinality(firsts) |->
            variables[CHOOSE index \in firsts :
                         Cardinality({other \in firsts : other < index}) = k - 1]]

\* all_models: the list of the models over the given list of variables
all_models(variables) ==
    LET combinations == product(Len(variables))
    IN  [k \in 1..Len(combinations) |-> DictOfCombination(variables, combinations[k])]

\* truth_values: the list of the values of the formula in the given models
truth_values(formula, models) ==
    [k \in 1..Len(models) |-> evaluate(formula, models[k])]

\* is_tautology scans truth_values over all_models(formula.variables()); the
\* variables are a set, listed here in sorted order
is_tautology(formula) ==
    LET truth_table == truth_values(formula,
                                    all_models(sorted(FormulaVariables(formula))))
    IN  ~ \E k \in 1..Len(truth_table) : ~ truth_table[k]

\* satisfiability read off the first row of the truth table alone
IsSatisfiableFirstRow(formula) ==
    LET truth_table == truth_values(formula,
                                    all_models(sorted(FormulaVariables(formula))))
    IN  truth_table[1]

\* is_satisfiable: some value of the truth table is True
is_satisfiable(formula) ==
    LET truth_table == truth_values(formula,
                                    all_models(sorted(FormulaVariables(formula))))
    IN  \E k \in 1..Len(truth_table) : truth_table[k]

is_contradiction(formula) == ~ is_satisfiable(formula)

RECURSIVE create_dnf(_)
\* __create_dnf__: the conjunction of the formulae, nested to the right
create_dnf(forms) ==
    IF Len(forms) = 1 THEN forms[1]
    ELSE FormulaBinary("&", forms[1], create_dnf(Tail(forms)))

\* the clause of the variables themselves, whatever their values
SynthesizeForModelPositive(model, keys) ==
    create_dnf([k \in 1..Len(keys) |-> FormulaLeaf(keys[k])])

\* synthesize_for_model: the clause that holds in the model only; keys is the
\* order in which the dictionary lists its variables
synthesize_for_model(model, keys) ==
    create_dnf([k \in 1..Len(keys) |->
                  IF ~ model[keys[k]] THEN FormulaUnary("~", FormulaLeaf(keys[k]))
                  ELSE FormulaLeaf(keys[k])])

RECURSIVE create_cnf(_)
\* __create_cnf__: the disjunction of the formulae, nested to the right
create_cnf(forms) ==
    IF Len(forms) = 1 THEN forms[1]
    ELSE FormulaBinary("|", forms[1], create_cnf(Tail(forms)))

RECURSIVE SynthesizedClauses(_, _, _, _)
\* the loop "for val in values" of synthesize from position index on: the
\* clause of options[index] for every True value; the clause lists the keys of
\* the dictionary options[index], which holds a repeated variable once
SynthesizedClauses(variables, values, options, index) ==
    IF index > Len(values) THEN <<>>
    ELSE (IF values[index]
             THEN <<synthesize_for_model(options[index],
                                         DictKeysInOrder(variables))>>
          ELSE <<>>)
         \o SynthesizedClauses(variables, values, options, index + 1)

\* synthesize, for a non-empty list of variables
synthesize(variables, values) ==
    LET options == all_models(variables)
        forms == SynthesizedClauses(variables, values, options, 1)
    IN  IF forms = <<>>
            THEN FormulaBinary("&", FormulaLeaf(variables[1]),
                               FormulaUnary("~", FormulaLeaf(variables[1])))
        ELSE create_cnf(forms)

\* every variable is captured by its affirmation
FormulaeCapturingAffirmed(model) ==
    LET keys == sorted(DOMAIN model)
    IN  [i \in 1..Len(keys) |-> FormulaLeaf(keys[i])]

formulae_capturing_model(model) ==
    LET keys == sorted(DOMAIN model)
    IN  [i \in 1..Len(keys) |->
           IF model[keys[i]] THEN FormulaLeaf(keys[i])
           ELSE Not(FormulaLeaf(keys[i]))]

RECURSIVE prove_in_model(_, _)
prove_in_model(formula, model) ==
    LET model_use == formulae_capturing_model(model)
    IN  IF is_variable(Root(formula))
            THEN IF \E i \in 1..Len(model_use) : model_use[i] = formula
                    THEN Proof(InferenceRule(model_use, formula), AXIOMATIC_SYSTEM,
                               <<AssumptionLine(formula)>>)
                 ELSE Proof(InferenceRule(model_use, Not(formula)), AXIOMATIC_SYSTEM,
                            <<AssumptionLine(Not(formula))>>)
        ELSE IF is_unary(Root(formula)) /\ is_variable(Repr(First(formula)))
            THEN IF model[Repr(First(formula))]
                    THEN Proof(InferenceRule(model_use, Not(formula)), AXIOMATIC_SYSTEM,
                               << AssumptionLine(First(formula)),
                                  RuleLine(Implies(First(formula), Not(formula)), NN, <<>>),
                                  RuleLine(Not(formula), MP, <<0, 1>>) >>)
                 ELSE Proof(InferenceRule(model_use, formula), AXIOMATIC_SYSTEM,
                            <<AssumptionLine(formula)>>)
        ELSE IF is_unary(Root(formula))
            THEN LET my_proof == prove_in_model(First(formula), model)
                 IN  IF ~ evaluate(formula, model)
                        THEN prove_corollary(my_proof, Not(formula), NN)
                     ELSE my_proof
        ELSE IF evaluate(formula, model) /\ ~ evaluate(First(formula), model)
            THEN prove_corollary(prove_in_model(Not(First(formula)), model), formula, I2)
        ELSE IF evaluate(formula, model) /\ evaluate(Second(formula), model)
            THEN prove_corollary(prove_in_model(Second(formula), model), formula, I1)
        ELSE combine_proofs(prove_in_model(First(formula), model),
                            prove_in_model(Second(formula), model),
                            Not(formula), NI)

\* the assumption is removed from the first proof only
ReduceAssumptionKeepingNegation(proof_from_affirmation, proof_from_negation) ==
    combine_proofs(remove_assumption(proof_from_affirmation), proof_from_negation,
                   proof_from_negation.statement.conclusion, R)

reduce_assumption(proof_from_affirmation, proof_from_negation) ==
    LET remove_affirmation == remove_assumption(proof_from_affirmation)
        remove_negation == remove_assumption(proof_from_negation)
    IN  combine_proofs(remove_affirmation, remove_negation,
                       proof_from_negation.statement.conclusion, R)

\* the model extended by one more variable
WithValue(model, var, value) ==
    [v \in DOMAIN model \cup {var} |-> IF v = var THEN value ELSE model[v]]

RECURSIVE operators(_)
\* Formula.operators: the operators of the formula, 'T' and 'F' included
operators(formula) ==
    IF is_constant(Root(formula)) THEN {Root(formula)}
    ELSE IF is_variable(Root(formula)) THEN {}
    ELSE IF is_unary(Root(formula))
        THEN {Root(formula)} \cup operators(First(formula))
    ELSE {Root(formula)} \cup operators(First(formula))
                         \cup operators(Second(formula))

\* "type(value) is bool": the value is True or False (values of different
\* types are told apart by their printed form)
IsBool(value) == ToString(value) \in {ToString(TRUE), ToString(FALSE)}

\* is_model: every key is a variable name and every value is a Boolean
is_model(model) ==
    \A key \in DOMAIN model : is_variable(key) /\ IsBool(model[key])

\* "sorted(tautology.variables())[:len(model)] == sorted(model.keys())": the
\* slice stops at the end of the list
IsModelOfFirstVariables(tautology, model) ==
    LET variables == sorted(FormulaVariables(tautology))
        length == Cardinality(DOMAIN model)
    IN  SubSeq(variables, 1, IF length > Len(variables) THEN Len(variables)
                             ELSE length)
            = sorted(DOMAIN model)

RECURSIVE prove_tautology(_, _)
\* prove_tautology: the four asserts, then the proof; a failed assert is the
\* outcome Raises("AssertionError"), a returned proof is the value itself
prove_tautology(tautology, model) ==
    IF ~ is_tautology(tautology) THEN Raises("AssertionError")
    ELSE IF ~ (operators(tautology) \subseteq {"->", "~"})
        THEN Raises("AssertionError")
    ELSE IF ~ is_model(model) THEN Raises("AssertionError")
    ELSE IF ~ IsModelOfFirstVariables(tautology, model)
        THEN Raises("AssertionError")
    ELSE
    LET variables == FormulaVariables(tautology)
        model_variables == DOMAIN model
        missing == SelectSeq(sorted(variables), LAMBDA var : var \notin model_variables)
    IN  IF variables \ model_variables = {} THEN prove_in_model(tautology, model)
        ELSE LET var == missing[1]
                 affimation == prove_tautology(tautology, WithValue(model, var, TRUE))
                 negation == prove_tautology(tautology, WithValue(model, var, FALSE))
             IN  reduce_assumption(affimation, negation)

\* what proof_or_counterexample returns: a model or a proof
ModelResult(model) == [kind |-> "model", model |-> model]

ProofResult(p) == [kind |-> "proof", proof |-> p]

\* the last model of the scan in which the formula is false
LastFalsifying(formula, models) ==
    LET falsifying == {k \in 1..Len(models) : ~ evaluate(formula, models[k])}
    IN  models[CHOOSE k \in falsifying : \A j \in falsifying : j <= k]

\* the model at which the scan of proof_or_counterexample returns
FirstFalsifying(formula, models) ==
    LET falsifying == {k \in 1..Len(models) : ~ evaluate(formula, models[k])}
    IN  models[CHOOSE k \in falsifying : \A j \in falsifying : k <= j]

proof_or_counterexample(formula) ==
    LET variables == sorted(FormulaVariables(formula))
        models == all_models(variables)
    IN  IF \E k \in 1..Len(models) : ~ evaluate(formula, models[k])
            THEN ModelResult(FirstFalsifying(formula, models))
        ELSE ProofResult(prove_tautology(formula, EmptyMap))

-----------------------------------------------------------------------------
(* predicates/syntax.py : names, class Term                                 *)

LowerLetters ==
    {"a", "b", "c", "d", "e", "f", "g", "h", "i", "j", "k", "l", "m",
     "n", "o", "p", "q", "r", "s", "t", "u", "v", "w", "x", "y", "z"}

UpperLetters ==
    {"A", "B", "C", "D", "E", "F", "G", "H", "I", "J", "K", "L", "M",
     "N", "O", "P", "Q", "R", "S", "T", "U", "V", "W", "X", "Y", "Z"}

\* str.isalnum: at least one character, all of them letters or digits
isalnum(s) ==
    /\ Len(s) > 0
    /\ \A i \in 1..Len(s) :
          SubSeq(s, i, i) \in LowerLetters \cup UpperLetters \cup Digits

fo_is_constant(s) ==
    \/ /\ SubSeq(s, 1, 1) \in Digits \cup {"a", "b", "c", "d"}
       /\ isalnum(s)
    \/ s = "_"

fo_is_variable(s) ==
    /\ SubSeq(s, 1, 1) \in {"u", "v", "w", "x", "y", "z"}
    /\ isalnum(s)

fo_is_function(s) ==
    /\ SubSeq(s, 1, 1) \in {"f", "g", "h", "i", "j", "k", "l", "m",
                            "n", "o", "p", "q", "r", "s", "t"}
    /\ isalnum(s)

\* Term(root) of a constant or variable name: no arguments attribute
TermLeaf(root) == [root |-> root]

\* Term(root, arguments) of a function name
Term(root, arguments) == [root |-> root, arguments |-> arguments]

RECURSIVE JoinWithCommas(_)
\* the strings of a sequence, separated by ','
JoinWithCommas(strings) ==
    IF Len(strings) = 0 THEN ""
    ELSE IF Len(strings) = 1 THEN strings[1]
    ELSE strings[1] \o "," \o JoinWithCommas(Tail(strings))

RECURSIVE TermRepr(_)
\* Term.__repr__
TermRepr(t) ==
    IF fo_is_constant(t.root) \/ fo_is_variable(t.root) THEN t.root
    ELSE t.root \o "("
         \o JoinWithCommas([i \in 1..Len(t.arguments) |-> TermRepr(t.arguments[i])])
         \o ")"

\* Term.__eq__ compares the string representations
TermEq(t, other) == TermRepr(t) = TermRepr(other)

RECURSIVE TermVariables(_)
\* Term.variables
TermVariables(t) ==
    IF fo_is_constant(t.root) THEN {}
    ELSE IF fo_is_variable(t.root) THEN {t.root}
    ELSE UNION {TermVariables(t.arguments[i]) : i \in 1..Len(t.arguments)}

\* a raised exception that carries a value
RaisesWith(e, v) == [exc |-> e, val |-> v]

RECURSIVE DescendFirst(_)
\* the while loop of __check_all: follow first arguments down to a leaf, or
\* stop at a term whose first argument prints as a function name
DescendFirst(argument) ==
    IF ~ fo_is_function(argument.root) THEN [recurse |-> FALSE, term |-> argument]
    ELSE IF fo_is_function(TermRepr(argument.arguments[1]))
        THEN [recurse |-> TRUE, term |-> argument]
    ELSE DescendFirst(argument.arguments[1])

RECURSIVE CheckAllFrom(_, _, _)
RECURSIVE check_all(_, _)
\* Term.__check_all: Returns(TRUE) or the ForbiddenVariableError it raises
check_all(term, forbiden_vals) == CheckAllFrom(term, forbiden_vals, 1)

\* the for loop of __check_all from the i-th argument on
CheckAllFrom(term, forbiden_vals, i) ==
    IF i > Len(term.arguments) THEN Returns(TRUE)
    ELSE LET found == DescendFirst(term.arguments[i])
             inner == IF found.recurse THEN check_all(found.term, forbiden_vals)
                      ELSE Returns(TRUE)
         IN  IF inner.exc # "none" THEN inner
             ELSE IF TermRepr(found.term) \in forbiden_vals
                 THEN RaisesWith("ForbiddenVariableError", TermRepr(found.term))
             ELSE CheckAllFrom(term, forbiden_vals, i + 1)

\* the assertions at the head of Term.substitute and Formula.substitute
SubstituteArgumentsOk(substitution_map, forbidden_variables) ==
    /\ \A element_name \in DOMAIN substitution_map :
          fo_is_constant(element_name) \/ fo_is_variable(element_name)
    /\ \A variable \in forbidden_variables : fo_is_variable(variable)

RECURSIVE SubstituteArguments(_, _, _, _)
RECURSIVE Term_substitute(_, _, _)
\* Term.substitute: Returns(term) or the exception it raises
Term_substitute(t, substitution_map, forbidden_variables) ==
    IF ~ SubstituteArgumentsOk(substitution_map, forbidden_variables)
        THEN Raises("AssertionError")
    ELSE IF fo_is_constant(t.root) \/ fo_is_variable(t.root)
        THEN IF t.root \in DOMAIN substitution_map
                THEN LET to_replace == substitution_map[t.root]
                         checked == IF fo_is_function(to_replace.root)
                                        THEN check_all(to_replace, forbidden_variables)
                                    ELSE IF TermRepr(to_replace) \in forbidden_variables
                                        THEN RaisesWith("ForbiddenVariableError",
                                                        TermRepr(to_replace))
                                    ELSE Returns(TRUE)
                     IN  IF checked.exc # "none" THEN checked ELSE Returns(to_replace)
             ELSE Returns(t)
    ELSE LET new_arg == SubstituteArguments(t.arguments, substitution_map,
                                            forbidden_variables, 1)
         IN  IF new_arg.exc # "none" THEN new_arg
             ELSE Returns(Term(t.root, new_arg.val))

\* arg.substitute(...) for the arguments from the i-th on, in order; the first
\* exception ends the loop
SubstituteArguments(arguments, substitution_map, forbidden_variables, i) ==
    IF i > Len(arguments) THEN Returns(<<>>)
    ELSE LET head == Term_substitute(arguments[i], substitution_map, forbidden_variables)
             rest == SubstituteArguments(arguments, substitution_map,
                                         forbidden_variables, i + 1)
         IN  IF head.exc # "none" THEN head
             ELSE IF rest.exc # "none" THEN rest
             ELSE Returns(<<head.val>> \o rest.val)

-----------------------------------------------------------------------------
(* predicates/syntax.py : class Formula                                     *)

fo_is_equality(s) == s = "="

fo_is_relation(s) ==
    /\ SubSeq(s, 1, 1) \in {"F", "G", "H", "I", "J", "K", "L", "M",
                            "N", "O", "P", "Q", "R", "S", "T"}
    /\ isalnum(s)

fo_is_unary(s) == s = "~"

fo_is_binary(s) == s = "&" \/ s = "|" \/ s = "->"

fo_is_quantifier(s) == s = "A" \/ s = "E"

\* Formula(root, arguments) of a relation name or the equality
FoRelation(root, arguments) == [root |-> root, arguments |-> arguments]

FoUnary(root, first) == [root |-> root, first |-> first]

FoBinary(root, first, second) == [root |-> root, first |-> first, second |-> second]

FoQuantifier(root, variable, predicate) ==
    [root |-> root, variable |-> variable, predicate |-> predicate]

RECURSIVE FoRepr(_)
\* Formula.__repr__
FoRepr(f) ==
    IF fo_is_equality(f.root)
        THEN TermRepr(f.arguments[1]) \o "=" \o TermRepr(f.arguments[2])
    ELSE IF fo_is_relation(f.root)
        THEN f.root \o "("
             \o JoinWithCommas([i \in 1..Len(f.arguments) |-> TermRepr(f.arguments[i])])
             \o ")"
    ELSE IF fo_is_unary(f.root) THEN "~" \o FoRepr(f.first)
    ELSE IF fo_is_binary(f.root)
        THEN "(" \o FoRepr(f.first) \o f.root \o FoRepr(f.second) \o ")"
    ELSE f.root \o f.variable \o "[" \o FoRepr(f.predicate) \o "]"

\* Formula.__eq__ compares the string representations
FoEq(f, other) == FoRepr(f) = FoRepr(other)

\* "for var in self.variable": the characters of the bound variable name
Characters(s) == {SubSeq(s, i, i) : i \in 1..Len(s)}

RECURSIVE fo_variables(_)
\* Formula.variables
fo_variables(f) ==
    IF fo_is_equality(f.root) \/ fo_is_relation(f.root)
        THEN UNION {TermVariables(f.arguments[i]) : i \in 1..Len(f.arguments)}
    ELSE IF fo_is_unary(f.root) THEN fo_variables(f.first)
    ELSE IF fo_is_binary(f.root) THEN fo_variables(f.first) \cup fo_variables(f.second)
    ELSE Characters(f.variable) \cup fo_variables(f.predicate)

RECURSIVE free_variables(_)
\* Formula.free_variables
free_variables(f) ==
    IF fo_is_equality(f.root)
        THEN TermVariables(f.arguments[1]) \cup TermVariables(f.arguments[2])
    ELSE IF fo_is_quantifier(f.root)
        THEN free_variables(f.predicate) \ Characters(f.variable)
    ELSE IF fo_is_unary(f.root) THEN free_variables(f.first)
    ELSE IF fo_is_binary(f.root) THEN free_variables(f.first) \cup free_variables(f.second)
    ELSE UNION {TermVariables(f.arguments[i]) : i \in 1..Len(f.arguments)}

\* the substitution map and the forbidden variables a quantified formula
\* passes on to its predicate
QuantifierMap(f, substitution_map) ==
    LET free == free_variables(f)
        keys == {var \in fo_variables(f) : var \in free /\ var \in DOMAIN substitution_map}
                \cup {val \in DOMAIN substitution_map : fo_is_constant(val)}
    IN  [name \in keys |-> substitution_map[name]]

QuantifierForbids(f, forbidden_variables) ==
    forbidden_variables \cup {var \in fo_variables(f) : var \notin free_variables(f)}

RECURSIVE fo_substitute(_, _, _)
\* Formula.substitute: Returns(formula) or the exception it raises
fo_substitute(f, substitution_map, forbidden_variables) ==
    IF ~ SubstituteArgumentsOk(substitution_map, forbidden_variables)
        THEN Raises("AssertionError")
    ELSE IF fo_is_unary(f.root)
        THEN LET first == fo_substitute(f.first, substitution_map, forbidden_variables)
             IN  IF first.exc # "none" THEN first
                 ELSE Returns(FoUnary(f.root, first.val))
    ELSE IF fo_is_binary(f.root)
        THEN LET first == fo_substitute(f.first, substitution_map, forbidden_variables)
                 second == fo_substitute(f.second, substitution_map, forbidden_variables)
             IN  IF first.exc # "none" THEN first
                 ELSE IF second.exc # "none" THEN second
                 ELSE Returns(FoBinary(f.root, first.val, second.val))
    ELSE IF fo_is_relation(f.root) \/ fo_is_equality(f.root)
        THEN LET args == SubstituteArguments(f.arguments, substitution_map,
                                             forbidden_variables, 1)
             IN  IF args.exc # "none" THEN args
                 ELSE Returns(FoRelation(f.root, args.val))
    ELSE LET preds == fo_substitute(f.predicate, QuantifierMap(f, substitution_map),
                                    QuantifierForbids(f, forbidden_variables))
         IN  IF preds.exc # "none" THEN preds
             ELSE Returns(FoQuantifier(f.root, f.variable, preds.val))

-----------------------------------------------------------------------------
(* predicates/syntax.py : Term.parse_prefix, Formula.parse_prefix           *)

RECURSIVE FindFrom(_, _, _)
\* the least index >= i (0-based) at which character c stands in s, or -1
FindFrom(s, c, i) ==
    IF i >= Len(s) THEN -1
    ELSE IF PyChar(s, i) = c THEN i
    ELSE FindFrom(s, c, i + 1)

\* s.find(c)
Find(s, c) == FindFrom(s, c, 0)

RECURSIVE NameEnd(_, _)
\* the scan "for index in range(1, len(s))": the first index >= index whose
\* character is not alphanumeric, or len(s)
NameEnd(s, index) ==
    IF index < Len(s) /\ isalnum(PyChar(s, index)) THEN NameEnd(s, index + 1)
    ELSE index

\* Term(root, arguments) as the parser calls it: the constructor's assertions
\* may fail, and the name tests read root[0]
TermOfParsed(root, arguments, rest) ==
    IF root = "" THEN ParseRaise("IndexError")
    ELSE IF fo_is_constant(root) \/ fo_is_variable(root)
        THEN ParseRaise("AssertionError")
    ELSE IF ~ fo_is_function(root) \/ Len(arguments) = 0
        THEN ParseRaise("AssertionError")
    ELSE ParseOk(Term(root, arguments), rest)

TermScanInit(index_open) ==
    [index |-> index_open + 1, counter |-> 1, opens |-> 1, closed |-> 0,
     last_one |-> index_open, terms |-> <<>>, error |-> ""]

\* a comma at any depth taken as a separator of the argument list
IsSeparatorAnyDepth(c, st) == c = ","

\* "if s[index] == ',' and opens < closed + 2": a comma separates two arguments
\* of the list being scanned only outside every nested call
IsSeparator(c, st) == c = "," /\ st.opens < st.closed + 2

\* "terms.append(Term.parse_prefix(s[last_one + 1 : index])[0])" and
\* "last_one = index", or the exception the parse raised
ArgumentParsed(st, parsed) ==
    IF parsed.kind = "raise" THEN [st EXCEPT !.error = parsed.rest]
    ELSE [st EXCEPT !.terms = Append(@, parsed.formula), !.last_one = st.index]

RECURSIVE Term_parse_prefix(_)
RECURSIVE TermScan(_, _)
\* one iteration of the while loop of Term.parse_prefix, before "index += 1"
TermScanStep(s, st) ==
    LET c == PyChar(s, st.index)
    IN  IF c = "(" THEN [st EXCEPT !.counter = @ + 1, !.opens = @ + 1]
        ELSE IF c = ")" THEN [st EXCEPT !.counter = @ - 1, !.closed = @ + 1]
        ELSE IF IsSeparator(c, st)
            THEN ArgumentParsed(st, Term_parse_prefix(
                                        PySlice(s, st.last_one + 1, st.index)))
        ELSE st

\* "if counter == 0: break", else "index += 1" and the next iteration
TermScanContinue(s, st) ==
    IF st.error # "" THEN st
    ELSE IF st.counter = 0 THEN st
    ELSE TermScan(s, [st EXCEPT !.index = @ + 1])

\* the while loop of Term.parse_prefix over the argument list
TermScan(s, st) ==
    IF st.index >= Len(s) THEN st
    ELSE TermScanContinue(s, TermScanStep(s, st))

\* the last argument appended and the term built
TermOfLast(function_name, terms, last, rest) ==
    IF last.kind = "raise" THEN last
    ELSE TermOfParsed(function_name, Append(terms, last.formula), rest)

\* the lines after the while loop of Term.parse_prefix
TermOfScan(s, index_open, st) ==
    IF st.error # "" THEN ParseRaise(st.error)
    ELSE TermOfLast(PySlice(s, 0, index_open), st.terms,
                    Term_parse_prefix(PySlice(s, st.last_one + 1, st.index)),
                    PyFrom(s, st.index + 1))

\* Term.parse_prefix: ParseOk(term, rest) or the exception it raises
Term_parse_prefix(s) ==
    IF s = "" THEN ParseRaise("IndexError")
    ELSE IF fo_is_variable(PyChar(s, 0))
            \/ (fo_is_constant(PyChar(s, 0)) /\ ~ (PyChar(s, 0) = "_" /\ Len(s) > 1))
        THEN IF Len(s) = 1 THEN ParseOk(TermLeaf(s), "")
             ELSE ParseOk(TermLeaf(PySlice(s, 0, NameEnd(s, 1))),
                          PyFrom(s, NameEnd(s, 1)))
    ELSE IF fo_is_constant(PyChar(s, 0)) THEN ParseOk(TermLeaf("_"), PyFrom(s, 1))
    ELSE TermOfScan(s, Find(s, "("), TermScan(s, TermScanInit(Find(s, "("))))

\* "return Term.parse_prefix(s)[0]": the parsed object without the remainder
FirstOfParsed(parsed) ==
    IF parsed.kind = "raise" THEN Raises(parsed.rest) ELSE Returns(parsed.formula)

Term_parse(s) == FirstOfParsed(Term_parse_prefix(s))

\* one iteration of the while loop of Formula.parse_prefix, before "index += 1"
FoScanStep(s, st) ==
    LET index == st.index
        c == PyChar(s, index)
    IN  IF c = "(" THEN [st EXCEPT !.open_number = @ + 1, !.count_par = @ + 1]
        ELSE IF c = ")"
            THEN [st EXCEPT !.close_number = @ + 1, !.count_par = @ - 1,
                            !.index_close = index]
        ELSE IF fo_is_binary(c)
            THEN [st EXCEPT !.operator_number = @ + 1,
                            !.index_operator = IF st.count_par = 1 THEN index ELSE @]
        ELSE IF index + 1 < Len(s) /\ PySlice(s, index, index + 2) = "->"
            THEN [st EXCEPT !.operator_number = @ + 1, !.index = index + 1,
                            !.index_operator = IF st.count_par = 1 THEN index + 1 ELSE @]
        ELSE st

RECURSIVE FoScan(_, _)
\* the while loop of Formula.parse_prefix over a parenthesized string
FoScan(s, st) ==
    IF st.index >= Len(s) THEN st
    ELSE LET st2 == [FoScanStep(s, st) EXCEPT !.index = @ + 1]
         IN  IF st2.open_number = st2.close_number THEN st2
             ELSE FoScan(s, st2)

\* the while loop of Formula.parse_prefix over the arguments of a relation:
\* the loop of Term.parse_prefix, entered at the opening parenthesis
RelationScan(s, st) == TermScan(s, st)

\* Formula(root, first, second) of two parsed operands; the constructor treats
\* a root that is no operator as a quantifier and its assertion fails
FoBinaryOfParsed(root, first, second, to_return) ==
    IF first.kind = "raise" THEN first
    ELSE IF second.kind = "raise" THEN second
    ELSE IF fo_is_binary(root)
        THEN ParseOk(FoBinary(root, first.formula, second.formula), to_return)
    ELSE ParseRaise("AssertionError")

\* "return Formula('~', formula[0]), formula[1]"
NegationOfParsed(formula) ==
    IF formula.kind = "raise" THEN formula
    ELSE ParseOk(FoUnary("~", formula.formula), formula.rest)

\* "return Formula(s[0], var, formula[0]), formula[1][1:]"
QuantifierOfParsed(root, var, formula) ==
    IF formula.kind = "raise" THEN formula
    ELSE IF var = "" THEN ParseRaise("IndexError")
    ELSE IF ~ fo_is_variable(var) THEN ParseRaise("AssertionError")
    ELSE ParseOk(FoQuantifier(root, var, formula.formula), PyFrom(formula.rest, 1))

\* Formula(relation, terms): the constructor's assertion on the name
RelationOfParsed(relation, terms, to_return) ==
    IF ~ fo_is_relation(relation) THEN ParseRaise("AssertionError")
    ELSE ParseOk(FoRelation(relation, terms), to_return)

\* the last argument of a relation appended and the formula built
RelationOfLast(relation, terms, last, to_return) ==
    IF last.kind = "raise" THEN last
    ELSE RelationOfParsed(relation, Append(terms, last.formula), to_return)

\* the lines after the second while loop of Formula.parse_prefix
RelationOfScan(s, relation, rs, to_return) ==
    IF rs.error # "" THEN ParseRaise(rs.error)
    ELSE IF PySlice(s, rs.last_one + 1, rs.index) = ""
        THEN RelationOfParsed(relation, rs.terms, to_return)
    ELSE RelationOfLast(relation, rs.terms,
                        Term_parse_prefix(PySlice(s, rs.last_one + 1, rs.index)),
                        to_return)

\* Term.parse_prefix(split_equal[0]) passed and split_equal[1] does not exist
NoEquality(parsed) ==
    IF parsed.kind = "raise" THEN parsed ELSE ParseRaise("IndexError")

\* "Formula('=', [Term.parse(first.__repr__()), Term.parse(scd[0].__repr__())])"
EqualityOfReparsed(first, scd, return_to) ==
    ParseOk(FoRelation("=", <<first.val, scd.val>>), return_to)

\* the equality branch of Formula.parse_prefix after the two terms are parsed
EqualityOfParsed(first, scd, remainder) ==
    IF first.kind = "raise" THEN first
    ELSE IF scd.kind = "raise" THEN scd
    ELSE EqualityOfReparsed(Term_parse(TermRepr(first.formula)),
                            Term_parse(TermRepr(scd.formula)),
                            scd.rest \o remainder)

\* s.split("=") for a string with a first '=' at first_equal: the two terms are
\* parsed from the first two pieces and the other pieces are given back
EqualityOfSplit(s, first_equal, after, second_equal) ==
    EqualityOfParsed(Term_parse_prefix(PySlice(s, 0, first_equal)),
                     Term_parse_prefix(IF second_equal < 0 THEN after
                                       ELSE PySlice(after, 0, second_equal)),
                     IF second_equal < 0 THEN "" ELSE PyFrom(after, second_equal))

RECURSIVE fo_parse_prefix(_)
\* the branch "if s[index] == '('" of Formula.parse_prefix after its first loop
ParenthesizedOfScan(s, is_rel, st) ==
    LET io == st.index_operator
        ic == st.index_close
        to_return == PyFrom(s, ic + 1)
    IN  IF is_rel
           THEN RelationOfScan(s, PySlice(s, 0, Find(s, "(")),
                               RelationScan(s, [index |-> Find(s, "("), counter |-> 0,
                                                opens |-> 0, closed |-> 0,
                                                last_one |-> Find(s, "("),
                                                terms |-> <<>>, error |-> ""]),
                               to_return)
        ELSE IF PyChar(s, io) = ">"
           THEN FoBinaryOfParsed("->",
                   fo_parse_prefix(PySlice(s, 1, io - 1)),
                   fo_parse_prefix(PySlice(s, io + 1, ic)), to_return)
        ELSE FoBinaryOfParsed(PyChar(s, io),
                   fo_parse_prefix(PySlice(s, 1, io)),
                   fo_parse_prefix(PySlice(s, io + 1, ic)), to_return)

\* Formula.parse_prefix from "if is_relation(s[0])" on, index being the
\* position of the relation's parenthesis or 0
RelationOrBinaryOrEquality(s, is_rel, index) ==
    IF PyChar(s, index) = "("
        THEN ParenthesizedOfScan(s, is_rel, FoScan(s, [ScanInit EXCEPT !.index = index]))
    ELSE IF Find(s, "=") < 0 THEN NoEquality(Term_parse_prefix(s))
    ELSE EqualityOfSplit(s, Find(s, "="), PyFrom(s, Find(s, "=") + 1),
                         Find(PyFrom(s, Find(s, "=") + 1), "="))

\* Formula.parse_prefix: ParseOk(formula, rest) or the exception it raises; a
\* quantifier without '[' makes the code call itself on s without end
fo_parse_prefix(s) ==
    IF s = "" THEN ParseRaise("IndexError")
    ELSE IF fo_is_unary(PyChar(s, 0))
        THEN NegationOfParsed(fo_parse_prefix(PyFrom(s, 1)))
    ELSE IF fo_is_quantifier(PyChar(s, 0))
        THEN IF Find(s, "[") < 0 THEN ParseRaise("RecursionError")
             ELSE QuantifierOfParsed(PyChar(s, 0), PySlice(s, 1, Find(s, "[")),
                                     fo_parse_prefix(PyFrom(s, Find(s, "[") + 1)))
    ELSE RelationOrBinaryOrEquality(s, fo_is_relation(PyChar(s, 0)),
                                    IF fo_is_relation(PyChar(s, 0)) THEN Find(s, "(")
                                    ELSE 0)

\* Formula.parse: Formula.parse_prefix(s)[0]
fo_parse(s) == FirstOfParsed(fo_parse_prefix(s))

-----------------------------------------------------------------------------
(* Proofs under construction: a caller writes a valid proof line by line    *)
(* and then hands it to one of the maneuvers of deduction.py.               *)

MaxLines == 3

X == FormulaLeaf("x")

Y == FormulaLeaf("y")

Atoms == {X, Y}

AE1 == InferenceRule(<<>>, Implies(FormulaBinary("&", P, Q), Q))

NoProof == Proof(InferenceRule(<<>>, FormulaLeaf("T")), {}, <<>>)

\* the assumptions and allowed rules the caller starts from
DedConfigs ==
    { [assumptions |-> <<X, Implies(X, Y)>>, rules |-> {MP}],
      [assumptions |-> <<Implies(X, Y), X>>, rules |-> {MP, I1}],
      [assumptions |-> <<X, Y, X>>, rules |-> {MP, I0}],
      [assumptions |-> <<Y, X>>, rules |-> {}],
      [assumptions |-> <<FormulaBinary("&", X, Y)>>, rules |-> {MP, NN}] }

\* the proof after one more line: its statement's conclusion is the last line
WithLine(p, line) ==
    Proof(InferenceRule(p.statement.assumptions, line.formula), p.rules,
          Append(p.lines, line))

\* the proof made of the first n lines
Prefix(p, n) ==
    Proof(InferenceRule(p.statement.assumptions, p.lines[n].formula), p.rules,
          SubSeq(p.lines, 1, n))

Building == op = "build" /\ Len(proof.lines) < MaxLines

AddAssumptionLine ==
    /\ Building
    /\ \E i \in 1..Len(proof.statement.assumptions) :
          proof' = WithLine(proof, AssumptionLine(proof.statement.assumptions[i]))
    /\ UNCHANGED <<op, arg, res>>

\* the formulae a schema variable may stand for in a line the caller writes
Values(p) ==
    Atoms \cup {p.statement.assumptions[i] : i \in
                   {k \in 1..Len(p.statement.assumptions) :
                        Len(p.statement.assumptions[k]) = 2}}

\* the extensions of the map m to all variables of f
Completions(p, f, m) ==
    { m @@ c : c \in [FormulaVariables(f) \ DOMAIN m -> Values(p)] }

\* a line justified by an allowed rule: its assumptions are matched against
\* earlier lines and the remaining variables of its conclusion are chosen
AddRuleLine ==
    /\ Building
    /\ \E rule \in proof.rules :
       \E cited \in [1..Len(rule.assumptions) -> 0..(Len(proof.lines) - 1)] :
          LET m == MergeAssumptionMaps(rule,
                       [assumptions |-> [k \in 1..Len(rule.assumptions) |->
                                            proof.lines[cited[k] + 1].formula]],
                       1, SomeMap(EmptyMap))
          IN  /\ ~ m.is_none
              /\ \E c \in Completions(proof, rule.conclusion, m.map) :
                    proof' = WithLine(proof,
                                RuleLine(substitute_variables(rule.conclusion, c),
                                         rule, cited))
    /\ UNCHANGED <<op, arg, res>>

CallRemoveAssumption ==
    /\ op = "build"
    /\ Len(proof.lines) > 0
    /\ IsValid(proof)
    /\ Len(proof.statement.assumptions) > 0
    /\ \A rule \in proof.rules : rule = MP \/ Len(rule.assumptions) = 0
    /\ op' = "remove_assumption"
    /\ arg' = <<>>
    /\ res' = remove_assumption(proof)
    /\ UNCHANGED proof

CallProveCorollary ==
    /\ op = "build"
    /\ Len(proof.lines) > 0
    /\ IsValid(proof)
    /\ \E conditional \in {I1, I2, NN, AE1} :
          LET m == formula_specialization_map(First(conditional.conclusion),
                                              proof.statement.conclusion)
          IN  /\ ~ m.is_none
              /\ \E c \in Completions(proof, Second(conditional.conclusion), m.map) :
                    LET consequent ==
                            substitute_variables(Second(conditional.conclusion), c)
                    IN  /\ is_specialization_of(
                               InferenceRule(<<>>, Implies(proof.statement.conclusion,
                                                           consequent)),
                               conditional)
                        /\ arg' = [consequent |-> consequent, conditional |-> conditional]
                        /\ res' = prove_corollary(proof, consequent, conditional)
    /\ op' = "prove_corollary"
    /\ UNCHANGED proof

CallCombineProofs ==
    /\ op = "build"
    /\ \E i, j \in 1..Len(proof.lines) :
       \E double_conditional \in {I1, I2, NI, D} :
          LET p1 == Prefix(proof, i)
              p2 == Prefix(proof, j)
              dc == double_conditional.conclusion
              m == merge_specialization_maps(
                       formula_specialization_map(First(dc), p1.statement.conclusion),
                       formula_specialization_map(First(Second(dc)),
                                                  p2.statement.conclusion))
          IN  /\ IsValid(p1)
              /\ IsValid(p2)
              /\ ~ m.is_none
              /\ \E c \in Completions(proof, Second(Second(dc)), m.map) :
                    LET consequent == substitute_variables(Second(Second(dc)), c)
                    IN  /\ is_specialization_of(
                               InferenceRule(<<>>,
                                   Implies(p1.statement.conclusion,
                                       Implies(p2.statement.conclusion, consequent))),
                               double_conditional)
                        /\ arg' = [p1 |-> p1, p2 |-> p2, consequent |-> consequent,
                                   double_conditional |-> double_conditional]
                        /\ res' = combine_proofs(p1, p2, consequent, double_conditional)
    /\ op' = "combine_proofs"
    /\ UNCHANGED proof

InitDed ==
    /\ op = "build"
    /\ \E c \in DedConfigs :
          proof = Proof(InferenceRule(c.assumptions, FormulaLeaf("T")), c.rules, <<>>)
    /\ arg = <<>>
    /\ res = NoProof

NextDed ==
    \/ AddAssumptionLine
    \/ AddRuleLine
    \/ CallRemoveAssumption
    \/ CallProveCorollary
    \/ CallCombineProofs

SpecDed == InitDed /\ [][NextDed]_vars

-----------------------------------------------------------------------------
(* Inlining: a caller writes a valid proof that uses lemma rules and then   *)
(* inlines the proof of one of them.                                        *)

\* [p] ==> (q->p), proved from I1 and MP
LemmaLift ==
    Proof(InferenceRule(<<P>>, Implies(Q, P)), {MP, I1},
          << AssumptionLine(P),
             RuleLine(Implies(P, Implies(Q, P)), I1, <<>>),
             RuleLine(Implies(Q, P), MP, <<0, 1>>) >>)

\* [] ==> (p->p), proved from I1, D and MP
LemmaI0 ==
    Proof(I0, {MP, I1, D},
          << RuleLine(Implies(Implies(P, Implies(Implies(P, P), P)),
                              Implies(Implies(P, Implies(P, P)), Implies(P, P))),
                      D, <<>>),
             RuleLine(Implies(P, Implies(Implies(P, P), P)), I1, <<>>),
             RuleLine(Implies(Implies(P, Implies(P, P)), Implies(P, P)), MP, <<1, 0>>),
             RuleLine(Implies(P, Implies(P, P)), I1, <<>>),
             RuleLine(Implies(P, P), MP, <<3, 2>>) >>)

Lemmas == {LemmaLift, LemmaI0}

\* [~p] ==> (p->q): I2 as a rule with an assumption
I2Rule == InferenceRule(<<Not(P)>>, Implies(P, Q))

InlineConfigs ==
    { [assumptions |-> <<X, Implies(Implies(Y, X), Y)>>,
       rules |-> {MP, LemmaLift.statement}],
      [assumptions |-> <<Implies(Implies(X, X), Y)>>, rules |-> {MP, I0}],
      [assumptions |-> <<X>>, rules |-> {MP, I0, LemmaLift.statement}],
      [assumptions |-> <<Not(X)>>, rules |-> {LemmaLift.statement, I2Rule}] }

CallInlineProof ==
    /\ op = "build"
    /\ Len(proof.lines) > 0
    /\ IsValid(proof)
    /\ \E lemma_proof \in Lemmas :
          /\ lemma_proof.statement \in proof.rules
          /\ IsValid(lemma_proof)
          /\ arg' = [lemma_proof |-> lemma_proof]
          /\ res' = inline_proof(proof, lemma_proof)
    /\ op' = "inline_proof"
    /\ UNCHANGED proof

InitInline ==
    /\ op = "build"
    /\ \E c \in InlineConfigs :
          proof = Proof(InferenceRule(c.assumptions, FormulaLeaf("T")), c.rules, <<>>)
    /\ arg = <<>>
    /\ res = Returns(NoProof)

NextInline ==
    \/ AddAssumptionLine
    \/ AddRuleLine
    \/ CallInlineProof

SpecInline == InitInline /\ [][NextInline]_vars

\* C6: inline_proof(main, lemma) returns, without raising, a valid proof of
\* main's statement none of whose lines is justified by lemma.statement.
C6_InlineProofValid ==
    op = "inline_proof" =>
        /\ res.exc = "none"
        /\ IsValid(res.val)
        /\ res.val.statement = proof.statement
        /\ \A k \in 1..Len(res.val.lines) :
              res.val.lines[k].is_assumption
              \/ res.val.lines[k].rule # arg.lemma_proof.statement

\* inline_proof on the main proofs in which every line whose instance is an
\* instance of lemma.statement is justified by lemma.statement itself
C6_InlineProofValidNoOverlap ==
    (/\ op = "inline_proof"
     /\ \A k \in 0..(Len(proof.lines) - 1) :
           (/\ ~ proof.lines[k + 1].is_assumption
            /\ is_specialization_of(rule_for_line(proof, k), arg.lemma_proof.statement))
           => proof.lines[k + 1].rule = arg.lemma_proof.statement)
    => /\ res.exc = "none"
       /\ IsValid(res.val)
       /\ res.val.statement = proof.statement
       /\ \A k \in 1..Len(res.val.lines) :
              res.val.lines[k].is_assumption
              \/ res.val.lines[k].rule # arg.lemma_proof.statement

-----------------------------------------------------------------------------
(* Claims about deduction.py, checked under SpecDed                         *)

LastAssumption(p) == p.statement.assumptions[Len(p.statement.assumptions)]

\* C2: combine_proofs(p1, p2, C, r) returns a valid proof whose statement is
\* InferenceRule(p1.statement.assumptions, C), for every assumptionless rule r
\* of which (A->(B->C)) is a specialization.
C2_CombineProofsValid ==
    op = "combine_proofs" =>
        /\ IsValid(res)
        /\ res.statement = InferenceRule(arg.p1.statement.assumptions, arg.consequent)

\* C3: prove_corollary(p, B, r) returns a valid proof whose statement is
\* InferenceRule(p.statement.assumptions, B) and whose two appended lines are
\* the instance (A->B) of r and B by MP from p's last line and that instance.
C3_ProveCorollaryValid ==
    op = "prove_corollary" =>
        LET n == Len(proof.lines)
        IN  /\ IsValid(res)
            /\ res.statement = InferenceRule(proof.statement.assumptions, arg.consequent)
            /\ Len(res.lines) = n + 2
            /\ res.lines[n + 1] =
                 RuleLine(Implies(proof.statement.conclusion, arg.consequent),
                          arg.conditional, <<>>)
            /\ res.lines[n + 2] = RuleLine(arg.consequent, MP, <<n - 1, n>>)

\* C4: remove_assumption(p) returns a valid proof whose conclusion is (phi->C),
\* phi being p's last assumption and C its conclusion, and every line of which
\* is an assumption of the result or is justified by a rule of p.rules united
\* with {MP, I0, I1, D}.
C4_RemoveAssumptionValid ==
    op = "remove_assumption" =>
        /\ IsValid(res)
        /\ res.statement.conclusion =
             Implies(LastAssumption(proof), proof.statement.conclusion)
        /\ \A k \in 1..Len(res.lines) :
              IF res.lines[k].is_assumption
                THEN \E i \in 1..Len(res.statement.assumptions) :
                        res.statement.assumptions[i] = res.lines[k].formula
              ELSE res.lines[k].rule \in proof.rules \cup {MP, I0, I1, D}

\* C4 witness: remove_assumption has run on a proof with a Modus-Ponens line
\* and a line equal to the removed assumption after index 0.
C4_Witness ==
    /\ op = "remove_assumption"
    /\ \E k \in 1..Len(proof.lines) :
          ~ proof.lines[k].is_assumption /\ proof.lines[k].rule = MP
    /\ \E k \in 2..Len(proof.lines) : proof.lines[k].formula = LastAssumption(proof)
    /\ \E k \in 1..Len(proof.lines) :
          ~ proof.lines[k].is_assumption /\ Len(proof.lines[k].assumptions) = 0

\* C5: remove_assumption(p).statement is InferenceRule([a1..ak], (phi->C)) for
\* p's assumptions [a1..ak, phi]: only the last declared assumption is removed.
C5_RemoveAssumptionStatement ==
    op = "remove_assumption" =>
        res.statement =
            InferenceRule(SubSeq(proof.statement.assumptions, 1,
                                 Len(proof.statement.assumptions) - 1),
                          Implies(LastAssumption(proof), proof.statement.conclusion))

\* C28: the rules of combine_proofs(p1, p2, C, r) are those of p1 together
\* with MP and r: MP is among them also when the rules of p1 and p2 lack it.
C28_CombineProofsRules ==
    op = "combine_proofs" =>
        res.rules = arg.p1.rules \cup {MP, arg.double_conditional}

-----------------------------------------------------------------------------
(* Contradictions: a caller writes a valid proof from inconsistent          *)
(* assumptions and derives an arbitrary formula, or the formula whose       *)
(* negation was assumed.                                                    *)

NotPP == Not(Implies(P, P))

\* the assumptions and allowed rules the caller starts from
ContraConfigs ==
    { [assumptions |-> <<X, Not(X)>>, rules |-> {}],
      [assumptions |-> <<X, Not(X)>>, rules |-> {MP, I2}],
      [assumptions |-> <<X, NotPP>>, rules |-> {MP}],
      [assumptions |-> <<NotPP>>, rules |-> {MP, NN}] }

\* the formulae the caller may ask proof_from_inconsistency to derive
Conclusions == {Y, Not(X), Implies(X, Y)}

CallProofFromInconsistency ==
    /\ op = "build"
    /\ \E i, j \in 1..Len(proof.lines) : \E conclusion \in Conclusions :
          LET proof_of_affirmation == Prefix(proof, i)
              proof_of_negation == Prefix(proof, j)
          IN  /\ IsValid(proof_of_affirmation)
              /\ IsValid(proof_of_negation)
              /\ Not(proof_of_affirmation.statement.conclusion) =
                    proof_of_negation.statement.conclusion
              /\ arg' = [proof_of_affirmation |-> proof_of_affirmation,
                         proof_of_negation |-> proof_of_negation,
                         conclusion |-> conclusion]
              /\ res' = proof_from_inconsistency(proof_of_affirmation,
                                                 proof_of_negation, conclusion)
    /\ op' = "proof_from_inconsistency"
    /\ UNCHANGED proof

CallProveByContradiction ==
    /\ op = "build"
    /\ Len(proof.lines) > 0
    /\ IsValid(proof)
    /\ proof.statement.conclusion = NotPP
    /\ Len(proof.statement.assumptions) > 0
    /\ Root(LastAssumption(proof)) = "~"
    /\ \A rule \in proof.rules : rule = MP \/ Len(rule.assumptions) = 0
    /\ op' = "prove_by_contradiction"
    /\ arg' = <<>>
    /\ res' = prove_by_contradiction(proof)
    /\ UNCHANGED proof

InitContra ==
    /\ op = "build"
    /\ \E c \in ContraConfigs :
          proof = Proof(InferenceRule(c.assumptions, FormulaLeaf("T")), c.rules, <<>>)
    /\ arg = <<>>
    /\ res = NoProof

NextContra ==
    \/ AddAssumptionLine
    \/ AddRuleLine
    \/ CallProofFromInconsistency
    \/ CallProveByContradiction

SpecContra == InitContra /\ [][NextContra]_vars

\* C25: for a valid proof p of ~(p->p) whose last assumption is ~phi and whose
\* rules have no assumptions except MP, prove_by_contradiction(p) is a valid
\* proof of phi from the assumptions of p without the last one, via the rules
\* of p together with MP, I0, I1, D and N.
C25_ProveByContradictionValid ==
    op = "prove_by_contradiction" =>
        /\ IsValid(res)
        /\ res.statement =
              InferenceRule(SubSeq(proof.statement.assumptions, 1,
                                   Len(proof.statement.assumptions) - 1),
                            First(LastAssumption(proof)))
        /\ proof.rules \cup {MP, I0, I1, D, N} \subseteq res.rules

\* C26: for valid proofs of A and of ~A from the same assumptions and rules,
\* and a formula C, proof_from_inconsistency returns a valid proof of C from
\* those assumptions via the given rules together with MP and I2.
C26_ProofFromInconsistencyValid ==
    op = "proof_from_inconsistency" =>
        /\ IsValid(res)
        /\ res.statement =
              InferenceRule(arg.proof_of_affirmation.statement.assumptions,
                            arg.conclusion)
        /\ res.rules = arg.proof_of_affirmation.rules \cup {MP, I2}

-----------------------------------------------------------------------------
(* Specializing: a caller writes a valid proof and asks for the proof of a  *)
(* specialization of its statement.                                         *)

\* the assumptions and allowed rules the caller starts from
SpecializeConfigs ==
    { [assumptions |-> <<X, Implies(X, Y)>>, rules |-> {MP}],
      [assumptions |-> <<Y>>, rules |-> {MP, I1}],
      [assumptions |-> <<Not(X)>>, rules |-> {MP, NN}] }

\* the formulae a variable of the statement may be specialized to
SpecializedValues ==
    {X, Not(Y), Implies(Y, X), FormulaBinary("&", FormulaLeaf("p"), FormulaLeaf("T"))}

CallProveSpecialization ==
    /\ op = "build"
    /\ Len(proof.lines) > 0
    /\ IsValid(proof)
    /\ \E sigma \in [RuleVariables(proof.statement) -> SpecializedValues] :
          /\ arg' = [specialization |-> specialize(proof.statement, sigma),
                     map |-> sigma]
          /\ res' = prove_specialization(proof, specialize(proof.statement, sigma))
    /\ op' = "prove_specialization"
    /\ UNCHANGED proof

InitSpecialize ==
    /\ op = "build"
    /\ \E c \in SpecializeConfigs :
          proof = Proof(InferenceRule(c.assumptions, FormulaLeaf("T")), c.rules, <<>>)
    /\ arg = <<>>
    /\ res = NoProof

NextSpecialize ==
    \/ AddAssumptionLine
    \/ AddRuleLine
    \/ CallProveSpecialization

SpecSpecialize == InitSpecialize /\ [][NextSpecialize]_vars

RECURSIVE Substituted(_, _)
\* the formula with every variable of the map replaced, all at once, by the
\* formula the map gives it
Substituted(formula, sigma) ==
    IF Len(formula) = 1
        THEN (IF Root(formula) \in DOMAIN sigma THEN sigma[Root(formula)] ELSE formula)
    ELSE IF Len(formula) = 2 THEN <<Root(formula), Substituted(First(formula), sigma)>>
    ELSE <<Root(formula), Substituted(First(formula), sigma),
           Substituted(Second(formula), sigma)>>

\* C27: for a valid proof p and a specialization t of its statement,
\* prove_specialization(p, t) is a valid proof with statement t, the rules
\* of p and as many lines as p; each line has the rule and the citations of
\* the line of p and its formula is that of p with the map from the statement
\* to t applied.
C27_ProveSpecialization ==
    op = "prove_specialization" =>
        /\ IsValid(res)
        /\ res.statement = arg.specialization
        /\ res.rules = proof.rules
        /\ Len(res.lines) = Len(proof.lines)
        /\ \A i \in 1..Len(proof.lines) :
              /\ res.lines[i].is_assumption = proof.lines[i].is_assumption
              /\ res.lines[i].rule = proof.lines[i].rule
              /\ res.lines[i].assumptions = proof.lines[i].assumptions
              /\ res.lines[i].formula = Substituted(proof.lines[i].formula, arg.map)

\* C27 witness: a proof by Modus Ponens of x, (x->y) ==> y has been specialized
\* by x := ~y, y := (y->x), which only a simultaneous substitution gets right
C27_WitnessSimultaneous ==
    /\ op = "prove_specialization"
    /\ Len(proof.lines) = 3
    /\ proof.lines[3] = RuleLine(Y, MP, <<0, 1>>)
    /\ arg.map = [v \in {"x", "y"} |-> IF v = "x" THEN Not(Y) ELSE Implies(Y, X)]
    /\ res.lines[2].formula = Implies(Not(Y), Implies(Y, X))
    /\ IsValid(res)

-----------------------------------------------------------------------------
(* Checking: a caller writes an arbitrary proof, valid or not, line by line *)
(* and asks is_line_valid and is_valid about it.                            *)

MaxCheckLines == 2

\* the integers a written line may cite: earlier, own and later positions,
\* Python-style negative indices, and an index before the first line
CiteRange == -2..1

CheckFormulas == {X, Implies(X, X)}

CheckConfigs ==
    { [assumptions |-> <<Implies(X, X)>>, rules |-> {MP}],
      [assumptions |-> <<X>>, rules |-> {MP, I0}],
      [assumptions |-> <<>>, rules |-> {I0}] }

\* the lines a caller may write: any formula, as an assumption or by a rule
\* with any citations
CheckLines ==
    {AssumptionLine(f) : f \in CheckFormulas}
    \cup {RuleLine(f, I0, <<>>) : f \in CheckFormulas}
    \cup {RuleLine(f, MP, <<i, j>>) : f \in CheckFormulas, i \in CiteRange, j \in CiteRange}

WriteLine ==
    /\ op = "build"
    /\ Len(proof.lines) < MaxCheckLines
    /\ \E line \in CheckLines :
       \E conclusion \in CheckFormulas :
          proof' = Proof(InferenceRule(proof.statement.assumptions, conclusion),
                         proof.rules, Append(proof.lines, line))
    /\ UNCHANGED <<op, arg, res>>

CallIsLineValid ==
    /\ op = "build"
    /\ \E line_number \in 0..(Len(proof.lines) - 1) :
          /\ arg' = [line_number |-> line_number]
          /\ res' = is_line_valid(proof, line_number)
    /\ op' = "is_line_valid"
    /\ UNCHANGED proof

CallIsValid ==
    /\ op = "build"
    /\ op' = "is_valid"
    /\ arg' = <<>>
    /\ res' = is_valid(proof)
    /\ UNCHANGED proof

InitCheck ==
    /\ op = "build"
    /\ \E c \in CheckConfigs :
          proof = Proof(InferenceRule(c.assumptions, X), c.rules, <<>>)
    /\ arg = <<>>
    /\ res = Returns(FALSE)

NextCheck ==
    \/ WriteLine
    \/ CallIsLineValid
    \/ CallIsValid

SpecCheck == InitCheck /\ [][NextCheck]_vars

RECURSIVE Subformulas(_)
Subformulas(f) ==
    IF Len(f) = 1 THEN {f}
    ELSE IF Len(f) = 2 THEN {f} \cup Subformulas(First(f))
    ELSE {f} \cup Subformulas(First(f)) \cup Subformulas(Second(f))

\* some assignment of formulae to the variables of general turns it into instance
IsInstanceOf(instance, general) ==
    \E sigma \in [RuleVariables(general) ->
                    Subformulas(instance.conclusion)
                    \cup UNION {Subformulas(instance.assumptions[i]) :
                                    i \in 1..Len(instance.assumptions)}] :
        specialize(general, sigma) = instance

\* the citations of line n all denote strictly earlier lines
CitesEarlier(p, n) ==
    \A k \in 1..Len(p.lines[n + 1].assumptions) :
        0 <= p.lines[n + 1].assumptions[k] /\ p.lines[n + 1].assumptions[k] < n

\* validity of line n as the specification of the checker states it
LineValidAsStated(p, n) ==
    LET line == p.lines[n + 1]
    IN  IF line.is_assumption
            THEN \E i \in 1..Len(p.statement.assumptions) :
                    p.statement.assumptions[i] = line.formula
        ELSE /\ line.rule \in p.rules
             /\ CitesEarlier(p, n)
             /\ IsInstanceOf(
                    InferenceRule([k \in 1..Len(line.assumptions) |->
                                      p.lines[line.assumptions[k] + 1].formula],
                                  line.formula),
                    line.rule)

\* C7: is_line_valid(n) returns True for a derived line only if every index it
\* cites is a strictly earlier position 0 <= i < n; a line citing itself, a
\* later line or a negative index is reported invalid.
C7_CitationsStrictlyEarlier ==
    (op = "is_line_valid" /\ ~ proof.lines[arg.line_number + 1].is_assumption) =>
        /\ res = Returns(TRUE) => CitesEarlier(proof, arg.line_number)
        /\ ~ CitesEarlier(proof, arg.line_number) => res = Returns(FALSE)

\* C8: for a proof with at least one line, is_valid() returns True iff every
\* line is valid as stated and the last line's formula is the conclusion.
C8_IsValidIffAllLinesValid ==
    (op = "is_valid" /\ Len(proof.lines) > 0) =>
        res = Returns(/\ \A n \in 0..(Len(proof.lines) - 1) : LineValidAsStated(proof, n)
                      /\ proof.lines[Len(proof.lines)].formula
                            = proof.statement.conclusion)

\* C8 on the proofs all of whose citations are non-negative
C8_IsValidNonNegativeCitations ==
    (/\ op = "is_valid"
     /\ Len(proof.lines) > 0
     /\ \A n \in 1..Len(proof.lines) : \A k \in 1..Len(proof.lines[n].assumptions) :
            proof.lines[n].assumptions[k] >= 0)
    => res = Returns(/\ \A n \in 0..(Len(proof.lines) - 1) : LineValidAsStated(proof, n)
                     /\ proof.lines[Len(proof.lines)].formula
                           = proof.statement.conclusion)

\* C30: is_valid() returns a boolean for every proof and never raises; for a
\* proof with no lines it returns False.
C30_IsValidTotal ==
    op = "is_valid" =>
        /\ res.exc = "none"
        /\ res.val \in BOOLEAN
        /\ (Len(proof.lines) = 0 => res = Returns(FALSE))

\* C30 on the proofs with at least one line all of whose citations are
\* non-negative
C30_IsValidTotalOnWrittenLines ==
    (/\ op = "is_valid"
     /\ Len(proof.lines) > 0
     /\ \A n \in 1..Len(proof.lines) : \A k \in 1..Len(proof.lines[n].assumptions) :
            proof.lines[n].assumptions[k] >= 0)
    => (res.exc = "none" /\ res.val \in BOOLEAN)

-----------------------------------------------------------------------------
(* Specialization maps: formula_specialization_map applied to a pair of     *)
(* formulae.                                                                *)

MaxGeneralSize == 4

MaxSpecificSize == 5

MapLeaves == {FormulaLeaf("p"), FormulaLeaf("q"), FormulaLeaf("T"), FormulaLeaf("F")}

MapOperators == {"->", "&"}

RECURSIVE FormulasOfSize(_)
\* the formulae over MapLeaves, '~' and MapOperators with exactly n nodes
FormulasOfSize(n) ==
    IF n = 1 THEN MapLeaves
    ELSE {FormulaUnary("~", f) : f \in FormulasOfSize(n - 1)}
         \cup UNION { {FormulaBinary(o, f, g) :
                          o \in MapOperators,
                          f \in FormulasOfSize(k),
                          g \in FormulasOfSize(n - 1 - k)} : k \in 1..(n - 2) }

GeneralFormulas == UNION {FormulasOfSize(n) : n \in 1..MaxGeneralSize}

SpecificFormulas == UNION {FormulasOfSize(n) : n \in 1..MaxSpecificSize}

InitMap ==
    /\ op = "init"
    /\ proof = NoProof
    /\ \E general \in GeneralFormulas, specialization \in SpecificFormulas :
          arg = [general |-> general, specialization |-> specialization]
    /\ res = NoneMap

CallFormulaSpecializationMap ==
    /\ op = "init"
    /\ op' = "formula_specialization_map"
    /\ res' = formula_specialization_map(arg.general, arg.specialization)
    /\ UNCHANGED <<proof, arg>>

NextMap == CallFormulaSpecializationMap

SpecMap == InitMap /\ [][NextMap]_vars

\* C9: formula_specialization_map(g, s) returns a map iff some assignment of
\* formulae to g's variables turns g into s; the keys of a returned map m are
\* exactly the variables of g and g.substitute_variables(m) == s.
C9_SpecializationMapExact ==
    op = "formula_specialization_map" =>
        /\ (~ res.is_none) <=>
              \E sigma \in [FormulaVariables(arg.general) ->
                               Subformulas(arg.specialization)] :
                  substitute_variables(arg.general, sigma) = arg.specialization
        /\ (~ res.is_none) =>
              /\ DOMAIN res.map = FormulaVariables(arg.general)
              /\ substitute_variables(arg.general, res.map) = arg.specialization

\* C9 witness: a map was returned that sends a variable to a compound formula
C9_WitnessMap ==
    /\ op = "formula_specialization_map"
    /\ ~ res.is_none
    /\ Len(arg.general) = 3
    /\ \E v \in DOMAIN res.map : Len(res.map[v]) > 1

-----------------------------------------------------------------------------
(* Printing and parsing: a formula is printed and the string parsed back.   *)

MaxOperandSize == 3

ParseLeaves == {FormulaLeaf("p"), FormulaLeaf("x12"), FormulaLeaf("T")}

BinaryOperators == {"&", "|", "->", "+", "<->", "-&", "-|"}

RECURSIVE ParseFormulasOfSize(_)
\* the formulae over ParseLeaves, '~' and the binary operators with n nodes
ParseFormulasOfSize(n) ==
    IF n = 1 THEN ParseLeaves
    ELSE {FormulaUnary("~", f) : f \in ParseFormulasOfSize(n - 1)}
         \cup UNION { {FormulaBinary(o, f, g) :
                          o \in BinaryOperators,
                          f \in ParseFormulasOfSize(k),
                          g \in ParseFormulasOfSize(n - 1 - k)} : k \in 1..(n - 2) }

Operands == UNION {ParseFormulasOfSize(n) : n \in 1..MaxOperandSize}

\* operands, their negations, and binary formulae of two operands
PrintableFormulas ==
    Operands
    \cup {FormulaUnary("~", f) : f \in Operands}
    \cup {FormulaBinary(o, f, g) : o \in BinaryOperators, f \in Operands, g \in Operands}

InitParse ==
    /\ op = "init"
    /\ proof = NoProof
    /\ \E f \in PrintableFormulas : arg = [formula |-> f, string |-> ""]
    /\ res = ParseNone("")

CallRepr ==
    /\ op = "init"
    /\ op' = "repr"
    /\ arg' = [arg EXCEPT !.string = Repr(arg.formula)]
    /\ UNCHANGED <<proof, res>>

CallParsePrefix ==
    /\ op = "repr"
    /\ op' = "parse_prefix"
    /\ res' = parse_prefix(arg.string)
    /\ UNCHANGED <<proof, arg>>

NextParse ==
    \/ CallRepr
    \/ CallParsePrefix

SpecParse == InitParse /\ [][NextParse]_vars

\* C10: for every formula f, parsing str(f) gives back f with remainder '',
\* so Formula.parse(str(f)) == f.
C10_RoundTrip ==
    op = "parse_prefix" =>
        /\ res = ParseOk(arg.formula, "")
        /\ parse(arg.string) = Returns(arg.formula)

\* C10 witness: a binary formula both of whose operands are binary formulae
\* with multi-character operators has been printed and parsed
C10_WitnessNested ==
    /\ op = "parse_prefix"
    /\ Len(arg.formula) = 3
    /\ Root(arg.formula) = "<->"
    /\ Len(First(arg.formula)) = 3
    /\ Root(First(arg.formula)) = "<->"
    /\ Len(Second(arg.formula)) = 3
    /\ Root(Second(arg.formula)) = "-&"

-----------------------------------------------------------------------------
(* The Tautology Theorem: formulae over '->' and '~' are proved in a model  *)
(* and tautologies are proved from a model of a prefix of their variables.  *)

MaxTautSize == 7

TautLeaves == {FormulaLeaf("p"), FormulaLeaf("q")}

RECURSIVE ImplicationFormulasOfSize(_)
\* the formulae over TautLeaves, '->' and '~' with n nodes
ImplicationFormulasOfSize(n) ==
    IF n = 1 THEN TautLeaves
    ELSE {Not(f) : f \in ImplicationFormulasOfSize(n - 1)}
         \cup UNION { {Implies(f, g) : f \in ImplicationFormulasOfSize(k),
                                       g \in ImplicationFormulasOfSize(n - 1 - k)} :
                      k \in 1..(n - 2) }

ImplicationFormulas == UNION {ImplicationFormulasOfSize(n) : n \in 1..MaxTautSize}

\* the models over the first k variables of the formula, k = 0 included
PrefixModels(formula) ==
    LET keys == sorted(FormulaVariables(formula))
    IN  UNION { {all_models(SubSeq(keys, 1, k))[i] : i \in 1..(2 ^ k)} :
                   k \in 0..Len(keys) }

\* variable names that do not occur in the formulae: one sorts between 'p'
\* and 'q', the other after both
ExtraNames == {"p1", "r"}

\* the models over the variables of the formula and one more variable
ExtendedModels(formula) ==
    UNION { LET keys == sorted(FormulaVariables(formula) \cup {extra})
            IN  {all_models(keys)[i] : i \in 1..(2 ^ Len(keys))} :
            extra \in ExtraNames }

InitTaut ==
    /\ op = "init"
    /\ proof = NoProof
    /\ \E f \in ImplicationFormulas :
          \E m \in PrefixModels(f) \cup ExtendedModels(f) :
             arg = [formula |-> f, model |-> m]
    /\ res = NoProof

CallProveInModel ==
    /\ op = "init"
    /\ FormulaVariables(arg.formula) \subseteq DOMAIN arg.model
    /\ op' = "prove_in_model"
    /\ res' = prove_in_model(arg.formula, arg.model)
    /\ UNCHANGED <<proof, arg>>

\* prove_tautology(formula, model): a proof, or the AssertionError of one of
\* its asserts
CallProveTautology ==
    /\ op = "init"
    /\ op' = "prove_tautology"
    /\ res' = prove_tautology(arg.formula, arg.model)
    /\ UNCHANGED <<proof, arg>>

\* proof_or_counterexample takes the formula alone
CallProofOrCounterexample ==
    /\ op = "init"
    /\ arg.model = EmptyMap
    /\ op' = "proof_or_counterexample"
    /\ res' = proof_or_counterexample(arg.formula)
    /\ UNCHANGED <<proof, arg>>

NextTaut ==
    \/ CallProveInModel
    \/ CallProveTautology
    \/ CallProofOrCounterexample

SpecTaut == InitTaut /\ [][NextTaut]_vars

\* C1: for a tautology t over '->' and '~' and a model m of the first len(m)
\* variables of t, prove_tautology(t, m) is a valid proof of
\* formulae_capturing_model(m) ==> t; from the empty model it has no assumptions.
C1_ProveTautologyValid ==
    (/\ op = "prove_tautology"
     /\ is_tautology(arg.formula)
     /\ arg.model \in PrefixModels(arg.formula)) =>
        /\ res # Raises("AssertionError")
        /\ IsValid(res)
        /\ res.statement =
              InferenceRule(formulae_capturing_model(arg.model), arg.formula)
        /\ (DOMAIN arg.model = {} => res.statement.assumptions = <<>>)

\* C1 witness: a tautology in two variables has been proved from the empty
\* model, through two levels of reduce_assumption
C1_WitnessEmptyModel ==
    /\ op = "prove_tautology"
    /\ DOMAIN arg.model = {}
    /\ FormulaVariables(arg.formula) = {"p", "q"}
    /\ is_tautology(arg.formula)
    /\ res # Raises("AssertionError")
    /\ IsValid(res)
    /\ res.statement = InferenceRule(<<>>, arg.formula)

\* the formulae that capture a model, stated from the model alone: one formula
\* per variable, x for a true variable and ~x for a false one, by increasing
\* variable name
CapturesModel(formulae, model) ==
    /\ Len(formulae) = Cardinality(DOMAIN model)
    /\ \A i \in 1..Len(formulae) :
          \E v \in DOMAIN model :
             formulae[i] = IF model[v] THEN FormulaLeaf(v) ELSE Not(FormulaLeaf(v))
    /\ \A i \in 1..Len(formulae) : \A j \in 1..Len(formulae) :
          i < j => StrLess(CHOOSE v \in FormulaVariables(formulae[i]) : TRUE,
                           CHOOSE v \in FormulaVariables(formulae[j]) : TRUE)

\* C22: for a formula f over variables, '->' and '~' and a model m defined on
\* at least the variables of f, prove_in_model(f, m) is a valid proof whose
\* assumptions are the formulae capturing m, in the order of the variable
\* names, and whose conclusion is f when f is true in m and ~f otherwise.
C22_ProveInModelValid ==
    op = "prove_in_model" =>
        /\ IsValid(res)
        /\ CapturesModel(res.statement.assumptions, arg.model)
        /\ res.statement.assumptions = formulae_capturing_model(arg.model)
        /\ res.statement.conclusion =
              IF evaluate(arg.formula, arg.model) THEN arg.formula
              ELSE Not(arg.formula)

\* C22 witness: a false implication (p true, q false) has been refuted in a
\* model that also values the variable p1, whose name sorts between p and q
C22_WitnessFalseImplication ==
    /\ op = "prove_in_model"
    /\ arg.formula = Implies(FormulaLeaf("p"), FormulaLeaf("q"))
    /\ DOMAIN arg.model = {"p", "p1", "q"}
    /\ arg.model["p"] /\ ~ arg.model["q"] /\ ~ arg.model["p1"]
    /\ IsValid(res)
    /\ res.statement.conclusion = Not(arg.formula)
    /\ res.statement.assumptions[2] = Not(FormulaLeaf("p1"))

\* the total assignments of truth values to a set of variables
ModelsOver(variables) == [variables -> BOOLEAN]

\* a model comes before another one in the order of all_models over the sorted
\* variables: at the first variable where they differ it is False
ComesBefore(variables, a, b) ==
    \E k \in 1..Len(variables) :
        /\ ~ a[variables[k]]
        /\ b[variables[k]]
        /\ \A i \in 1..(k - 1) : a[variables[i]] = b[variables[i]]

\* C23: for a formula f over variables, '->' and '~', proof_or_counterexample(f)
\* returns, when some model over the variables of f makes f false, the first
\* such model in the order of all_models over the sorted variables, and
\* otherwise a valid proof of f from no assumptions; it returns no proof for a
\* non-tautology and no model for a tautology.
C23_ProofOrCounterexample ==
    op = "proof_or_counterexample" =>
        LET variables == FormulaVariables(arg.formula)
            falsifying == {m \in ModelsOver(variables) : ~ evaluate(arg.formula, m)}
        IN  IF falsifying # {}
                THEN /\ res.kind = "model"
                     /\ res.model \in falsifying
                     /\ \A m \in falsifying \ {res.model} :
                           ComesBefore(sorted(variables), res.model, m)
            ELSE /\ res.kind = "proof"
                 /\ IsValid(res.proof)
                 /\ res.proof.statement = InferenceRule(<<>>, arg.formula)

\* C23 witness: a formula that is false in two models, (p->p) -> ~q, has got
\* the first of them in the scan, p False and q True, which is not the first
\* model of the scan
C23_WitnessSecondModel ==
    /\ op = "proof_or_counterexample"
    /\ arg.formula = Implies(Implies(FormulaLeaf("p"), FormulaLeaf("p")),
                             Not(FormulaLeaf("q")))
    /\ res.kind = "model"
    /\ res.model = [v \in {"p", "q"} |-> v = "q"]

-----------------------------------------------------------------------------
(* Parsing arbitrary strings over the formula alphabet.                     *)

MaxStringLen == 4

StringAlphabet == {"(", ")", "p", "q", "&", "~", "-", ">"}

RECURSIVE StringsOfLen(_)
StringsOfLen(n) ==
    IF n = 0 THEN {""}
    ELSE {c \o t : c \in StringAlphabet, t \in StringsOfLen(n - 1)}

InputStrings == UNION {StringsOfLen(n) : n \in 0..MaxStringLen}

InitStrings ==
    /\ op = "init"
    /\ proof = NoProof
    /\ arg \in InputStrings
    /\ res = ParseNone("")

CallParsePrefixOnString ==
    /\ op = "init"
    /\ op' = "parse_prefix"
    /\ res' = parse_prefix(arg)
    /\ UNCHANGED <<proof, arg>>

CallIsFormula ==
    /\ op = "init"
    /\ op' = "is_formula"
    /\ res' = is_formula(arg)
    /\ UNCHANGED <<proof, arg>>

NextStrings ==
    \/ CallParsePrefixOnString
    \/ CallIsFormula

SpecStrings == InitStrings /\ [][NextStrings]_vars

\* the strings that are the standard representation of a formula: leaves of
\* the alphabet, negations, and parenthesized binary formulae
RECURSIVE IsStandardString(_)
IsStandardString(s) ==
    \/ s \in {"p", "q"}
    \/ Len(s) >= 2 /\ SubSeq(s, 1, 1) = "~" /\ IsStandardString(SubSeq(s, 2, Len(s)))
    \/ /\ Len(s) >= 5
       /\ SubSeq(s, 1, 1) = "(" /\ SubSeq(s, Len(s), Len(s)) = ")"
       /\ \E i \in 3..(Len(s) - 2) :
             \/ /\ SubSeq(s, i, i) = "&"
                /\ IsStandardString(SubSeq(s, 2, i - 1))
                /\ IsStandardString(SubSeq(s, i + 1, Len(s) - 1))
             \/ /\ SubSeq(s, i, i + 1) = "->"
                /\ IsStandardString(SubSeq(s, 2, i - 1))
                /\ IsStandardString(SubSeq(s, i + 2, Len(s) - 1))

\* C11: on every string parse_prefix does not raise and a returned (f, rest)
\* satisfies str(f) + rest == s; is_formula(s) is True iff s is the standard
\* string of a formula.
C11_ParsePrefixTotal ==
    /\ op = "parse_prefix" =>
          /\ res.kind # "raise"
          /\ (res.kind = "ok" => Repr(res.formula) \o res.rest = arg)
    /\ op = "is_formula" => res = Returns(IsStandardString(arg))

-----------------------------------------------------------------------------
(* First-order substitution and free variables on bounded terms and         *)
(* formulae.                                                                *)

MaxTermSize == 4

MaxQuantifierDepth == 2

SubstLeaves == {TermLeaf("x"), TermLeaf("y"), TermLeaf("c")}

RECURSIVE TermsOfSize(_)
\* the terms over SubstLeaves, a unary f and a binary g with n nodes
TermsOfSize(n) ==
    IF n = 1 THEN SubstLeaves
    ELSE {Term("f", <<t>>) : t \in TermsOfSize(n - 1)}
         \cup UNION { {Term("g", <<t, u>>) : t \in TermsOfSize(k),
                                             u \in TermsOfSize(n - 1 - k)} :
                      k \in 1..(n - 2) }

SubstTerms == UNION {TermsOfSize(n) : n \in 1..MaxTermSize}

\* the terms substitution is applied to
SubjectTerms == UNION {TermsOfSize(n) : n \in 1..3}

BoundNames == {"x", "y", "xy", "x1"}

SubstAtoms ==
    { FoRelation("=", <<TermLeaf("x"), TermLeaf("c")>>),
      FoRelation("=", <<TermLeaf("x1"), TermLeaf("y")>>),
      FoRelation("R", <<Term("f", <<TermLeaf("xy")>>), TermLeaf("y"), TermLeaf("c")>>) }

RECURSIVE FormulasOfDepth(_)
\* formulae with at most n nested quantifiers or conjunctions over the atoms
FormulasOfDepth(n) ==
    IF n = 0 THEN SubstAtoms
    ELSE FormulasOfDepth(n - 1)
         \cup {FoQuantifier("A", v, f) : v \in BoundNames, f \in FormulasOfDepth(n - 1)}
         \cup {FoBinary("&", f, g) : f \in FormulasOfDepth(n - 1), g \in SubstAtoms}

\* formulae with a quantifier beside the replaced occurrence, not around it
ScopedFormulas ==
    LET Rc == FoRelation("R", <<TermLeaf("c")>>)
        EyQy == FoQuantifier("E", "y", FoRelation("Q", <<TermLeaf("y")>>))
    IN  { FoQuantifier("A", "x", FoBinary("&", Rc, EyQy)),
          FoQuantifier("A", "x", FoBinary("&", EyQy, Rc)),
          FoBinary("&", Rc, EyQy) }

SubjectFormulas == FormulasOfDepth(MaxQuantifierDepth) \cup ScopedFormulas

\* the substitution maps: empty, one key, or the keys x and c mapped to leaves
SubstMaps ==
    {EmptyMap}
    \cup {[name \in {k} |-> t] : k \in {"x", "y", "c"}, t \in SubstTerms}
    \cup {[name \in {"x", "c"} |-> IF name = "x" THEN t ELSE u] :
             t \in SubstLeaves, u \in {Term("g", <<TermLeaf("c"), TermLeaf("x")>>)}}

ForbiddenSets == SUBSET {"x", "y"}

InitSubst ==
    /\ op = "init"
    /\ proof = NoProof
    /\ res = Returns(FALSE)
    /\ \E m \in SubstMaps : \E fb \in ForbiddenSets :
          \/ \E t \in SubjectTerms :
                arg = [term |-> t, substitution_map |-> m, forbidden_variables |-> fb]
          \/ \E f \in SubjectFormulas :
                arg = [formula |-> f, substitution_map |-> m, forbidden_variables |-> fb]

CallTermSubstitute ==
    /\ op = "init"
    /\ "term" \in DOMAIN arg
    /\ op' = "Term.substitute"
    /\ res' = Term_substitute(arg.term, arg.substitution_map, arg.forbidden_variables)
    /\ UNCHANGED <<proof, arg>>

CallFormulaSubstitute ==
    /\ op = "init"
    /\ "formula" \in DOMAIN arg
    /\ op' = "Formula.substitute"
    /\ res' = fo_substitute(arg.formula, arg.substitution_map, arg.forbidden_variables)
    /\ UNCHANGED <<proof, arg>>

CallFreeVariables ==
    /\ op = "init"
    /\ "formula" \in DOMAIN arg
    /\ op' = "Formula.free_variables"
    /\ res' = Returns(free_variables(arg.formula))
    /\ UNCHANGED <<proof, arg>>

NextSubst ==
    \/ CallTermSubstitute
    \/ CallFormulaSubstitute
    \/ CallFreeVariables

SpecSubst == InitSubst /\ [][NextSubst]_vars

\* C13: substituting the empty map returns, without error, a tree equal to
\* the term or formula, for every forbidden_variables set.
C13_EmptyMapIdentity ==
    /\ (op = "Term.substitute" /\ arg.substitution_map = EmptyMap) =>
          (res.exc = "none" /\ TermEq(res.val, arg.term))
    /\ (op = "Formula.substitute" /\ arg.substitution_map = EmptyMap) =>
          (res.exc = "none" /\ FoEq(res.val, arg.formula))

RECURSIVE TermLeafNames(_)
\* the constant and variable names that occur in a term
TermLeafNames(t) ==
    IF fo_is_constant(t.root) \/ fo_is_variable(t.root) THEN {t.root}
    ELSE UNION {TermLeafNames(t.arguments[i]) : i \in 1..Len(t.arguments)}

RECURSIVE Captured(_, _, _)
\* some key of the map has an occurrence in f that is replaced (a constant, or
\* a variable not bound at that place) by a term with a variable that is
\* bound at that place; bound holds the names quantified around f
Captured(f, substitution_map, bound) ==
    IF fo_is_equality(f.root) \/ fo_is_relation(f.root)
        THEN \E i \in 1..Len(f.arguments) :
                \E k \in DOMAIN substitution_map \cap TermLeafNames(f.arguments[i]) :
                   /\ fo_is_constant(k) \/ k \notin bound
                   /\ TermVariables(substitution_map[k]) \cap bound # {}
    ELSE IF fo_is_unary(f.root) THEN Captured(f.first, substitution_map, bound)
    ELSE IF fo_is_binary(f.root)
        THEN \/ Captured(f.first, substitution_map, bound)
             \/ Captured(f.second, substitution_map, bound)
    ELSE Captured(f.predicate, substitution_map, bound \cup {f.variable})

\* C14: Formula.substitute raises ForbiddenVariableError whenever a term
\* substituted for a free occurrence of a key contains, at any depth, a
\* variable bound by a quantifier around that occurrence.
C14_CaptureRaises ==
    (op = "Formula.substitute"
        /\ Captured(arg.formula, arg.substitution_map, {}))
    => res.exc = "ForbiddenVariableError"

RECURSIVE ForbiddenAtOccurrence(_, _, _, _)
\* some term substituted for an occurrence of a key (a constant, or a variable
\* that no enclosing quantifier binds) contains a forbidden variable or a
\* variable bound by a quantifier that encloses the occurrence
ForbiddenAtOccurrence(f, substitution_map, forbidden_variables, bound) ==
    IF fo_is_equality(f.root) \/ fo_is_relation(f.root)
        THEN \E i \in 1..Len(f.arguments) :
                \E k \in DOMAIN substitution_map \cap TermLeafNames(f.arguments[i]) :
                   /\ fo_is_constant(k) \/ k \notin bound
                   /\ TermVariables(substitution_map[k])
                         \cap (forbidden_variables \cup bound) # {}
    ELSE IF fo_is_unary(f.root)
        THEN ForbiddenAtOccurrence(f.first, substitution_map, forbidden_variables, bound)
    ELSE IF fo_is_binary(f.root)
        THEN \/ ForbiddenAtOccurrence(f.first, substitution_map,
                                      forbidden_variables, bound)
             \/ ForbiddenAtOccurrence(f.second, substitution_map,
                                      forbidden_variables, bound)
    ELSE ForbiddenAtOccurrence(f.predicate, substitution_map, forbidden_variables,
                               bound \cup {f.variable})

\* C29: Formula.substitute raises ForbiddenVariableError only if a term
\* substituted for an occurrence contains a forbidden variable or a variable
\* bound by a quantifier around that occurrence; a quantifier elsewhere in the
\* formula causes no error.
C29_ForbiddenOnlyWhenEnclosed ==
    (op = "Formula.substitute" /\ res.exc = "ForbiddenVariableError") =>
        ForbiddenAtOccurrence(arg.formula, arg.substitution_map,
                              arg.forbidden_variables, {})

\* C29 without an outer quantifier: a conjunction of an atom and a quantified
\* formula is substituted without error
C29_NoErrorBesideQuantifier ==
    (/\ op = "Formula.substitute"
     /\ arg.formula \in ScopedFormulas
     /\ fo_is_binary(arg.formula.root)
     /\ arg.forbidden_variables = {})
    => res.exc = "none"

\* the variables of forbidden that occur in a term substituted for a key that
\* occurs in t
ForbiddenHits(t, substitution_map, forbidden_variables) ==
    UNION { TermVariables(substitution_map[k]) \cap forbidden_variables :
            k \in DOMAIN substitution_map \cap TermLeafNames(t) }

\* C15: Term.substitute raises ForbiddenVariableError iff a key that occurs in
\* the term is mapped to a term containing a forbidden variable, wherever that
\* variable sits; the error names such a variable; otherwise the call returns.
C15_TermSubstituteForbidden ==
    op = "Term.substitute" =>
        LET hits == ForbiddenHits(arg.term, arg.substitution_map,
                                  arg.forbidden_variables)
        IN  IF hits # {}
                THEN res.exc = "ForbiddenVariableError" /\ res.val \in hits
            ELSE res.exc = "none"

RECURSIVE IdealTermSubstitute(_, _)
\* every leaf that is a key is replaced by the mapped term, in one pass
IdealTermSubstitute(t, substitution_map) ==
    IF fo_is_constant(t.root) \/ fo_is_variable(t.root)
        THEN IF t.root \in DOMAIN substitution_map THEN substitution_map[t.root] ELSE t
    ELSE Term(t.root, [i \in 1..Len(t.arguments) |->
                          IdealTermSubstitute(t.arguments[i], substitution_map)])

RECURSIVE IdealSubstitute(_, _)
\* free occurrences of keys are replaced; under a quantifier the key equal to
\* the bound variable name is dropped
IdealSubstitute(f, substitution_map) ==
    IF fo_is_equality(f.root) \/ fo_is_relation(f.root)
        THEN FoRelation(f.root, [i \in 1..Len(f.arguments) |->
                                    IdealTermSubstitute(f.arguments[i], substitution_map)])
    ELSE IF fo_is_unary(f.root)
        THEN FoUnary(f.root, IdealSubstitute(f.first, substitution_map))
    ELSE IF fo_is_binary(f.root)
        THEN FoBinary(f.root, IdealSubstitute(f.first, substitution_map),
                      IdealSubstitute(f.second, substitution_map))
    ELSE FoQuantifier(f.root, f.variable,
            IdealSubstitute(f.predicate,
                [k \in DOMAIN substitution_map \ {f.variable} |-> substitution_map[k]]))

\* C16: when no error is raised, substitute replaces exactly the free
\* occurrences of the keys, keeps bound occurrences and bound-variable names,
\* and does not substitute inside the substituted-in terms.
C16_SubstituteFreeOccurrences ==
    /\ (op = "Term.substitute" /\ res.exc = "none") =>
          res.val = IdealTermSubstitute(arg.term, arg.substitution_map)
    /\ (op = "Formula.substitute" /\ res.exc = "none") =>
          res.val = IdealSubstitute(arg.formula, arg.substitution_map)

RECURSIVE IdealFreeVariables(_)
\* the free variables, the quantifier removing its whole bound-variable name
IdealFreeVariables(f) ==
    IF fo_is_equality(f.root) \/ fo_is_relation(f.root)
        THEN UNION {TermVariables(f.arguments[i]) : i \in 1..Len(f.arguments)}
    ELSE IF fo_is_unary(f.root) THEN IdealFreeVariables(f.first)
    ELSE IF fo_is_binary(f.root)
        THEN IdealFreeVariables(f.first) \cup IdealFreeVariables(f.second)
    ELSE IdealFreeVariables(f.predicate) \ {f.variable}

\* C17: free_variables is the variables of the arguments for an equality or
\* relation, the union over the operands for '~' and binary operators, and
\* free_variables(P) minus {v} for Q v [P], v being the whole name.
C17_FreeVariables ==
    op = "Formula.free_variables" => res.val = IdealFreeVariables(arg.formula)

\* the bound-variable names of a formula
RECURSIVE BoundNamesOf(_)
BoundNamesOf(f) ==
    IF fo_is_equality(f.root) \/ fo_is_relation(f.root) THEN {}
    ELSE IF fo_is_unary(f.root) THEN BoundNamesOf(f.first)
    ELSE IF fo_is_binary(f.root) THEN BoundNamesOf(f.first) \cup BoundNamesOf(f.second)
    ELSE {f.variable} \cup BoundNamesOf(f.predicate)

\* with one-character bound-variable names the properties of C13, C16 and
\* C17 hold
SingleCharacterNamesHold ==
    ("formula" \in DOMAIN arg /\ \A v \in BoundNamesOf(arg.formula) : Len(v) = 1) =>
        /\ C13_EmptyMapIdentity
        /\ C16_SubstituteFreeOccurrences
        /\ C17_FreeVariables

\* C29 on the formulae whose bound-variable names have one character:
\* Formula.substitute raises ForbiddenVariableError only if a term substituted
\* for an occurrence contains a forbidden variable or a variable bound by a
\* quantifier around that occurrence.
C29_SingleCharacterNames ==
    ("formula" \in DOMAIN arg /\ \A v \in BoundNamesOf(arg.formula) : Len(v) = 1) =>
        C29_ForbiddenOnlyWhenEnclosed

-----------------------------------------------------------------------------
(* Printing and parsing of first-order terms and formulae                  *)

MaxPrintedTermSize == 5

MaxPrintedDepth == 2

PrintedLeaves == {TermLeaf("x1"), TermLeaf("c")}

RECURSIVE PrintedTermsOfSize(_)
\* the terms over PrintedLeaves, a unary f and a binary plus with n nodes
PrintedTermsOfSize(n) ==
    IF n = 1 THEN PrintedLeaves
    ELSE {Term("f", <<t>>) : t \in PrintedTermsOfSize(n - 1)}
         \cup UNION { {Term("plus", <<t, u>>) : t \in PrintedTermsOfSize(k),
                                                u \in PrintedTermsOfSize(n - 1 - k)} :
                      k \in 1..(n - 2) }

PrintedTerms == UNION {PrintedTermsOfSize(n) : n \in 1..MaxPrintedTermSize}

\* the terms that stand in atomic formulae
AtomTerms == UNION {PrintedTermsOfSize(n) : n \in 1..(MaxPrintedTermSize - 2)}

FixedAtoms ==
    { FoRelation("Q", <<>>),
      FoRelation("=", <<Term("f", <<TermLeaf("x1")>>), TermLeaf("_")>>) }

PrintedAtoms ==
    FixedAtoms
    \cup {FoRelation("=", <<t, TermLeaf("c")>>) : t \in AtomTerms}
    \cup {FoRelation("R", <<t, TermLeaf("xy")>>) : t \in AtomTerms}
    \cup {FoRelation("GT1", <<t>>) : t \in PrintedLeaves}

RECURSIVE PrintedFormulasOfDepth(_)
\* formulae with at most n nested operators and quantifiers over the atoms
PrintedFormulasOfDepth(n) ==
    IF n = 0 THEN PrintedAtoms
    ELSE LET sub == PrintedFormulasOfDepth(n - 1)
         IN  sub
             \cup {FoUnary("~", f) : f \in sub}
             \cup {FoQuantifier(q, v, f) : q \in {"A", "E"}, v \in {"x", "xy"}, f \in sub}
             \cup {FoBinary(o, f, FoRelation("=", <<Term("f", <<TermLeaf("x1")>>),
                                                      TermLeaf("_")>>)) :
                      o \in {"&", "|", "->"}, f \in sub}
             \cup {FoBinary("->", FoRelation("Q", <<>>), f) : f \in sub}

PrintedFormulas == PrintedFormulasOfDepth(MaxPrintedDepth)

InitFoParse ==
    /\ op = "init"
    /\ proof = NoProof
    /\ res = Returns(FALSE)
    /\ \/ \E t \in PrintedTerms : arg = [term |-> t]
       \/ \E f \in PrintedFormulas : arg = [formula |-> f]

\* Term.parse(str(t))
CallTermParse ==
    /\ op = "init"
    /\ "term" \in DOMAIN arg
    /\ op' = "Term.parse"
    /\ res' = Term_parse(TermRepr(arg.term))
    /\ UNCHANGED <<proof, arg>>

\* Formula.parse(str(f))
CallFormulaParse ==
    /\ op = "init"
    /\ "formula" \in DOMAIN arg
    /\ op' = "Formula.parse"
    /\ res' = fo_parse(FoRepr(arg.formula))
    /\ UNCHANGED <<proof, arg>>

NextFoParse == CallTermParse \/ CallFormulaParse

SpecFoParse == InitFoParse /\ [][NextFoParse]_vars

\* C12: parsing the printed form of a term or of a first-order formula gives
\* back that term or formula, with nothing left unparsed: a comma inside a
\* nested call does not split the enclosing argument list and a quantifier's
\* body ends at its matching bracket.
C12_FirstOrderRoundTrip ==
    /\ op = "Term.parse" =>
          /\ res = Returns(arg.term)
          /\ TermEq(res.val, arg.term)
          /\ Term_parse_prefix(TermRepr(arg.term)).rest = ""
    /\ op = "Formula.parse" =>
          /\ res = Returns(arg.formula)
          /\ FoEq(res.val, arg.formula)
          /\ fo_parse_prefix(FoRepr(arg.formula)).rest = ""

\* a term whose first argument is a nested call holding a comma is parsed back
C12_WitnessNestedComma ==
    /\ op = "Term.parse"
    /\ arg.term = Term("plus", <<Term("plus", <<TermLeaf("x1"), TermLeaf("c")>>),
                                 TermLeaf("c")>>)
    /\ res = Returns(arg.term)

-----------------------------------------------------------------------------
(* Models, truth tables and synthesis                                      *)

MaxVariables == 3

MaxMinority == 3

MaxSemSize == 4

MaxIterations == 2

VariableNames == {"p", "q", "r", "x1"}

\* the lists of n distinct variable names
RECURSIVE VariableLists(_)
VariableLists(n) ==
    IF n = 0 THEN {<<>>}
    ELSE {Append(l, v) : l \in VariableLists(n - 1), v \in VariableNames} \cap
         {l \in Seq(VariableNames) : \A i, j \in 1..Len(l) : l[i] = l[j] => i = j}

ListsOfVariables == UNION {VariableLists(n) : n \in 0..MaxVariables}

NamesInOrder == <<"p", "q", "r", "x1">>

\* the non-empty lists that run through NamesInOrder forwards or backwards from
\* some name on, wrapping around
SynthesizedLists ==
    {[k \in 1..n |-> NamesInOrder[((start + step * k) % 4) + 1]] :
        n \in 1..MaxVariables, start \in {0, 2}, step \in {1, 3}} \cap ListsOfVariables

\* the number of positions of the list of truth values that hold b
CountOf(values, b) == Cardinality({k \in 1..Len(values) : values[k] = b})

\* the lists of n truth values with few True values or at most one False value
ValueLists(n) ==
    {values \in [1..n -> BOOLEAN] :
        CountOf(values, TRUE) <= MaxMinority \/ CountOf(values, FALSE) <= 1}

SemLeaves == {FormulaLeaf("p"), FormulaLeaf("q"), FormulaLeaf("T"), FormulaLeaf("F")}

RECURSIVE SemFormulasOfSize(_)
\* the formulae over SemLeaves, '~' and the binary operators with n nodes
SemFormulasOfSize(n) ==
    IF n = 1 THEN SemLeaves
    ELSE {FormulaUnary("~", f) : f \in SemFormulasOfSize(n - 1)}
         \cup UNION { {FormulaBinary(o, f, g) :
                          o \in BinaryOperators,
                          f \in SemFormulasOfSize(k),
                          g \in SemFormulasOfSize(n - 1 - k)} : k \in 1..(n - 2) }

SemFormulas == UNION {SemFormulasOfSize(n) : n \in 1..MaxSemSize}

InitSem ==
    /\ op = "init"
    /\ proof = NoProof
    /\ res = Returns(FALSE)
    /\ \/ \E variables \in ListsOfVariables :
             arg = [variables |-> variables, iterations |-> 0]
       \/ \E variables \in SynthesizedLists :
             \E values \in ValueLists(2 ^ Len(variables)) :
                arg = [variables |-> variables, values |-> values]
       \/ \E formula \in SemFormulas :
             \E model \in [{"p", "q"} -> BOOLEAN] :
                arg = [formula |-> formula, model |-> model]

\* all_models(variables)
CallAllModels ==
    /\ op = "init"
    /\ "iterations" \in DOMAIN arg
    /\ op' = "all_models"
    /\ res' = Returns(all_models(arg.variables))
    /\ UNCHANGED <<proof, arg>>

\* list(models) on the list all_models returned: a pass over a list reads its
\* elements in order and leaves the list as it was
IterateModels ==
    /\ op \in {"all_models", "list"}
    /\ arg.iterations < MaxIterations
    /\ op' = "list"
    /\ arg' = [arg EXCEPT !.iterations = @ + 1]
    /\ res' = Returns([k \in 1..Len(res.val) |-> res.val[k]])
    /\ UNCHANGED proof

\* synthesize(variables, values)
CallSynthesize ==
    /\ op = "init"
    /\ "values" \in DOMAIN arg
    /\ op' = "synthesize"
    /\ res' = Returns(synthesize(arg.variables, arg.values))
    /\ UNCHANGED <<proof, arg>>

\* evaluate(formula, model)
CallEvaluate ==
    /\ op = "init"
    /\ "formula" \in DOMAIN arg
    /\ op' = "evaluate"
    /\ res' = Returns(evaluate(arg.formula, arg.model))
    /\ UNCHANGED <<proof, arg>>

\* is_tautology(formula)
CallIsTautology ==
    /\ op = "init"
    /\ "formula" \in DOMAIN arg
    /\ op' = "is_tautology"
    /\ res' = Returns(is_tautology(arg.formula))
    /\ UNCHANGED <<proof, arg>>

\* is_satisfiable(formula)
CallIsSatisfiable ==
    /\ op = "init"
    /\ "formula" \in DOMAIN arg
    /\ op' = "is_satisfiable"
    /\ res' = Returns(is_satisfiable(arg.formula))
    /\ UNCHANGED <<proof, arg>>

\* is_contradiction(formula)
CallIsContradiction ==
    /\ op = "init"
    /\ "formula" \in DOMAIN arg
    /\ op' = "is_contradiction"
    /\ res' = Returns(is_contradiction(arg.formula))
    /\ UNCHANGED <<proof, arg>>

NextSem ==
    \/ CallAllModels
    \/ IterateModels
    \/ CallSynthesize
    \/ CallEvaluate
    \/ CallIsTautology
    \/ CallIsSatisfiable
    \/ CallIsContradiction

SpecSem == InitSem /\ [][NextSem]_vars

\* model a comes before model b in the lexicographic order of the listed
\* variables, False before True, the first listed variable most significant
LexLess(variables, a, b) ==
    \E k \in 1..Len(variables) :
        /\ ~ a[variables[k]]
        /\ b[variables[k]]
        /\ \A i \in 1..(k - 1) : a[variables[i]] = b[variables[i]]

\* C19: all_models returns exactly the 2^n total assignments over the n listed
\* variables, each once, in lexicographic order with False before True and the
\* first listed variable most significant, and every further pass over the
\* returned sequence gives the same models in the same order.
C19_AllModelsOrdered ==
    op \in {"all_models", "list"} =>
        LET variables == arg.variables
            models == res.val
            names == {variables[i] : i \in 1..Len(variables)}
        IN  /\ res.exc = "none"
            /\ Len(models) = 2 ^ Len(variables)
            /\ {models[k] : k \in 1..Len(models)} = [names -> BOOLEAN]
            /\ \A i, j \in 1..Len(models) :
                  i < j => LexLess(variables, models[i], models[j])
            /\ res.val = all_models(variables)

\* the models over p, q have been listed a second time: FF, FT, TF, TT
C19_WitnessSecondPass ==
    /\ op = "list"
    /\ arg.variables = <<"p", "q">>
    /\ arg.iterations = 2
    /\ res.val = << [v \in {"p", "q"} |-> FALSE],
                    [v \in {"p", "q"} |-> v = "q"],
                    [v \in {"p", "q"} |-> v = "p"],
                    [v \in {"p", "q"} |-> TRUE] >>

\* C18: for a non-empty list V of distinct variables and a list vals of
\* 2^|V| truth values, the truth values of synthesize(V, vals) in the models
\* all_models(V) are vals; when no value is True the result is (x&~x) for
\* x = V[0], which is False in every model.
C18_SynthesisRoundTrip ==
    op = "synthesize" =>
        /\ res.exc = "none"
        /\ truth_values(res.val, all_models(arg.variables)) = arg.values
        /\ (\A k \in 1..Len(arg.values) : ~ arg.values[k]) =>
              /\ res.val = FormulaBinary("&", FormulaLeaf(arg.variables[1]),
                                         FormulaUnary("~", FormulaLeaf(arg.variables[1])))
              /\ \A model \in [{arg.variables[k] : k \in 1..Len(arg.variables)} -> BOOLEAN] :
                    ~ evaluate(res.val, model)

\* a formula with the table False, True, True, False over q, p was synthesized
C18_WitnessTwoClauses ==
    /\ op = "synthesize"
    /\ arg.variables = <<"q", "p">>
    /\ arg.values = <<FALSE, TRUE, TRUE, FALSE>>
    /\ res.val = FormulaBinary("|",
                    FormulaBinary("&", FormulaUnary("~", FormulaLeaf("q")), FormulaLeaf("p")),
                    FormulaBinary("&", FormulaLeaf("q"), FormulaUnary("~", FormulaLeaf("p"))))

\* the pairs of operand values for which the binary operator gives True
TruthTable(operator) ==
    CASE operator = "&" -> {<<TRUE, TRUE>>}
      [] operator = "|" -> {<<TRUE, TRUE>>, <<TRUE, FALSE>>, <<FALSE, TRUE>>}
      [] operator = "->" -> {<<TRUE, TRUE>>, <<FALSE, TRUE>>, <<FALSE, FALSE>>}
      [] operator = "+" -> {<<TRUE, FALSE>>, <<FALSE, TRUE>>}
      [] operator = "<->" -> {<<TRUE, TRUE>>, <<FALSE, FALSE>>}
      [] operator = "-&" -> {<<TRUE, FALSE>>, <<FALSE, TRUE>>, <<FALSE, FALSE>>}
      [] operator = "-|" -> {<<FALSE, FALSE>>}

RECURSIVE Holds(_, _)
\* the value of the formula in the model by the truth tables of its operators
Holds(formula, model) ==
    IF Len(formula) = 1
        THEN (IF Root(formula) = "T" THEN TRUE
              ELSE IF Root(formula) = "F" THEN FALSE
              ELSE model[Root(formula)])
    ELSE IF Len(formula) = 2 THEN ~ Holds(First(formula), model)
    ELSE <<Holds(First(formula), model), Holds(Second(formula), model)>>
             \in TruthTable(Root(formula))

\* C20: evaluate gives every operator its truth table; is_tautology(f) is True
\* iff evaluate(f, m) is True for every model m over the variables of f,
\* is_satisfiable(f) iff it is True for at least one such m, and
\* is_contradiction(f) is the negation of is_satisfiable(f).
C20_TruthTablePredicates ==
    LET f == arg.formula
        models == [FormulaVariables(f) -> BOOLEAN]
    IN  /\ op = "evaluate" => res = Returns(Holds(f, arg.model))
        /\ op = "is_tautology" =>
              /\ res = Returns(\A m \in models : evaluate(f, m))
              /\ res.val = \A m \in models : Holds(f, m)
        /\ op = "is_satisfiable" =>
              /\ res = Returns(\E m \in models : evaluate(f, m))
              /\ res.val = \E m \in models : Holds(f, m)
        /\ op = "is_contradiction" => res = Returns(~ is_satisfiable(f))

\* (p&~p) was found not satisfiable
C20_WitnessContradiction ==
    /\ op = "is_satisfiable"
    /\ arg.formula = FormulaBinary("&", FormulaLeaf("p"), FormulaUnary("~", FormulaLeaf("p")))
    /\ res = Returns(FALSE)

-----------------------------------------------------------------------------
(* predicates/syntax.py : propositional_skeleton and its inverse            *)

MaxSkeletonSize == 5

MaxGenerated == 1

\* logic_utils.fresh_variable_name_generator: the name it yields when it has
\* yielded counter - 1 names before
FreshName(counter) == "z" \o ToString(counter)

RECURSIVE KeyOf(_, _, _)
\* "for key in dic.keys(): if dic[key] == self": the first key from position
\* index on whose formula equals f, or "" when there is none
KeyOf(dic, f, index) ==
    IF index > Len(dic) THEN ""
    ELSE IF FoEq(dic[index].value, f) THEN dic[index].key
    ELSE KeyOf(dic, f, index + 1)

\* a fresh atom for every subformula, whatever the dictionary holds
AtomAlwaysFresh(f, st, key) ==
    [formula |-> FormulaLeaf(FreshName(st.counter + 1)),
     dic |-> Append(st.dic, [key |-> FreshName(st.counter + 1), value |-> f]),
     counter |-> st.counter + 1]

\* the atom of a relation, equality or quantifier: the key found, or the next
\* fresh name, which is then added to the dictionary
AtomOfSubformula(f, st, key) ==
    IF key # ""
        THEN [formula |-> FormulaLeaf(key), dic |-> st.dic, counter |-> st.counter]
    ELSE [formula |-> FormulaLeaf(FreshName(st.counter + 1)),
          dic |-> Append(st.dic, [key |-> FreshName(st.counter + 1), value |-> f]),
          counter |-> st.counter + 1]

\* "return PropositionalFormula(self.root, left, right), dic_right"
BinaryOfSkeletons(root, left, right) ==
    [formula |-> FormulaBinary(root, left.formula, right.formula),
     dic |-> right.dic, counter |-> right.counter]

\* "return PropositionalFormula(self.root, form), dic_new"
UnaryOfSkeleton(root, form) ==
    [formula |-> FormulaUnary(root, form.formula),
     dic |-> form.dic, counter |-> form.counter]

RECURSIVE helper_skeleton(_, _)
\* the right operand is abstracted with the dictionary the left one returned
BinarySkeleton(f, left) ==
    BinaryOfSkeletons(f.root, left, helper_skeleton(f.second, left))

\* Formula.__helper_skeleton: st holds the dictionary, in insertion order, and
\* the number of names the generator has yielded
helper_skeleton(f, st) ==
    IF fo_is_relation(f.root) \/ fo_is_equality(f.root) \/ fo_is_quantifier(f.root)
        THEN AtomOfSubformula(f, st, KeyOf(st.dic, f, 1))
    ELSE IF fo_is_binary(f.root) THEN BinarySkeleton(f, helper_skeleton(f.first, st))
    ELSE UnaryOfSkeleton(f.root, helper_skeleton(f.first, st))

\* the dictionary as a map from its keys to their formulae
MapOfDic(dic) ==
    [key \in {dic[i].key : i \in 1..Len(dic)} |->
        dic[CHOOSE i \in 1..Len(dic) : dic[i].key = key].value]

\* the pair returned, and the state the generator is left in
SkeletonOfHelper(st) ==
    [skeleton |-> st.formula, substitution_map |-> MapOfDic(st.dic),
     counter |-> st.counter]

\* Formula.propositional_skeleton, called when the generator has yielded
\* counter names
propositional_skeleton(f, counter) ==
    SkeletonOfHelper(helper_skeleton(f, [dic |-> <<>>, counter |-> counter]))

\* "isinstance(value, Formula)" fails: the value is None (a formula is a
\* record, None a tuple, and the two are told apart by their printed form)
IsNone(value) == ToString(value) = ToString(<<"None">>)

\* "return Formula(skeleton.root, left, right)": the operands are computed
\* left first; the constructor asserts that each of them is a Formula, and an
\* operand that came back None fails it
FoBinaryOfOutcomes(root, left, right) ==
    IF left.exc # "none" THEN left
    ELSE IF right.exc # "none" THEN right
    ELSE IF IsNone(left.val) \/ IsNone(right.val)
        THEN Raises("AssertionError")
    ELSE Returns(FoBinary(root, left.val, right.val))

\* "return Formula(skeleton.root, first)": the constructor asserts that the
\* operand is a Formula
FoUnaryOfOutcome(root, first) ==
    IF first.exc # "none" THEN first
    ELSE IF IsNone(first.val) THEN Raises("AssertionError")
    ELSE Returns(FoUnary(root, first.val))

RECURSIVE from_propositional_skeleton(_, _)
\* Formula.from_propositional_skeleton: a leaf that is not a first-order
\* variable name (a constant, a propositional variable p..t) falls through
\* every branch and None is returned
from_propositional_skeleton(skeleton, substitution_map) ==
    IF \E key \in DOMAIN substitution_map : ~ is_variable(key)
        THEN Raises("AssertionError")
    ELSE IF fo_is_variable(Root(skeleton))
        THEN IF Root(skeleton) \in DOMAIN substitution_map
                THEN Returns(substitution_map[Root(skeleton)])
             ELSE Raises("KeyError")
    ELSE IF fo_is_binary(Root(skeleton))
        THEN FoBinaryOfOutcomes(Root(skeleton),
                 from_propositional_skeleton(First(skeleton), substitution_map),
                 from_propositional_skeleton(Second(skeleton), substitution_map))
    ELSE IF fo_is_unary(Root(skeleton))
        THEN FoUnaryOfOutcome(Root(skeleton),
                 from_propositional_skeleton(First(skeleton), substitution_map))
    ELSE Returns(<<"None">>)

SkeletonAtoms ==
    { FoRelation("R", <<TermLeaf("x")>>),
      FoRelation("Q", <<>>),
      FoRelation("=", <<Term("f", <<TermLeaf("x")>>), TermLeaf("c")>>),
      FoQuantifier("A", "x", FoBinary("->", FoRelation("R", <<TermLeaf("x")>>),
                                      FoRelation("Q", <<>>))) }

RECURSIVE SkeletonFormulasOfSize(_)
\* the formulae built from n atoms and operators '~', '&', '|', '->'
SkeletonFormulasOfSize(n) ==
    IF n = 1 THEN SkeletonAtoms
    ELSE {FoUnary("~", f) : f \in SkeletonFormulasOfSize(n - 1)}
         \cup UNION { {FoBinary(o, f, g) :
                          o \in {"&", "|", "->"},
                          f \in SkeletonFormulasOfSize(k),
                          g \in SkeletonFormulasOfSize(n - 1 - k)} : k \in 1..(n - 2) }

SkeletonFormulas == UNION {SkeletonFormulasOfSize(n) : n \in 1..MaxSkeletonSize}

InitSkeleton ==
    /\ op = "init"
    /\ proof = NoProof
    /\ res = Returns(FALSE)
    /\ \E f \in SkeletonFormulas : \E counter \in 0..MaxGenerated :
          arg = [formula |-> f, counter |-> counter]

\* f.propositional_skeleton(): the generator moves on
CallPropositionalSkeleton ==
    /\ op = "init"
    /\ op' = "propositional_skeleton"
    /\ res' = Returns(propositional_skeleton(arg.formula, arg.counter))
    /\ arg' = [arg EXCEPT !.counter = propositional_skeleton(arg.formula, @).counter]
    /\ UNCHANGED proof

\* Formula.from_propositional_skeleton on the pair just returned; proof keeps
\* the pair
CallFromPropositionalSkeleton ==
    /\ op = "propositional_skeleton"
    /\ op' = "from_propositional_skeleton"
    /\ proof' = res.val
    /\ res' = from_propositional_skeleton(res.val.skeleton, res.val.substitution_map)
    /\ UNCHANGED arg

NextSkeleton == CallPropositionalSkeleton \/ CallFromPropositionalSkeleton

SpecSkeleton == InitSkeleton /\ [][NextSkeleton]_vars

RECURSIVE MaximalSubformulas(_)
\* the maximal relation, equality and quantifier subformulae, left to right
MaximalSubformulas(f) ==
    IF fo_is_unary(f.root) THEN MaximalSubformulas(f.first)
    ELSE IF fo_is_binary(f.root)
        THEN MaximalSubformulas(f.first) \o MaximalSubformulas(f.second)
    ELSE <<f>>

RECURSIVE SkeletonAtomsOf(_)
\* the atoms of a propositional formula, left to right
SkeletonAtomsOf(skeleton) ==
    IF Len(skeleton) = 1 THEN <<Root(skeleton)>>
    ELSE IF Len(skeleton) = 2 THEN SkeletonAtomsOf(First(skeleton))
    ELSE SkeletonAtomsOf(First(skeleton)) \o SkeletonAtomsOf(Second(skeleton))

RECURSIVE SameShape(_, _)
\* the skeleton has the operators of f above its maximal subformulae
SameShape(skeleton, f) ==
    IF fo_is_unary(f.root)
        THEN Len(skeleton) = 2 /\ Root(skeleton) = "~" /\ SameShape(First(skeleton), f.first)
    ELSE IF fo_is_binary(f.root)
        THEN /\ Len(skeleton) = 3
             /\ Root(skeleton) = f.root
             /\ SameShape(First(skeleton), f.first)
             /\ SameShape(Second(skeleton), f.second)
    ELSE Len(skeleton) = 1

\* C21: propositional_skeleton(f) returns (s, m) with
\* from_propositional_skeleton(s, m) == f; every maximal relation, equality or
\* quantifier subformula of f is replaced by one atom, two of them by the same
\* atom iff they are syntactically equal, and m maps exactly the atoms used to
\* the subformulae they replaced.
C21_SkeletonRoundTrip ==
    /\ op = "propositional_skeleton" =>
          LET s == res.val.skeleton
              m == res.val.substitution_map
              atoms == SkeletonAtomsOf(s)
              replaced == MaximalSubformulas(arg.formula)
          IN  /\ SameShape(s, arg.formula)
              /\ Len(atoms) = Len(replaced)
              /\ \A i, j \in 1..Len(atoms) :
                    (atoms[i] = atoms[j]) <=> (replaced[i] = replaced[j])
              /\ DOMAIN m = {atoms[i] : i \in 1..Len(atoms)}
              /\ \A i \in 1..Len(atoms) : m[atoms[i]] = replaced[i]
    /\ op = "from_propositional_skeleton" =>
          /\ res = Returns(arg.formula)
          /\ FoEq(res.val, arg.formula)

\* a formula in which R(x) stands twice and a quantified formula once was
\* abstracted and rebuilt
C21_WitnessRepeatedAtom ==
    /\ op = "from_propositional_skeleton"
    /\ arg.formula = FoBinary("&",
                        FoBinary("|", FoRelation("R", <<TermLeaf("x")>>),
                                 FoQuantifier("A", "x",
                                    FoBinary("->", FoRelation("R", <<TermLeaf("x")>>),
                                             FoRelation("Q", <<>>)))),
                        FoRelation("R", <<TermLeaf("x")>>))
    /\ proof.skeleton = FormulaBinary("&",
                           FormulaBinary("|", FormulaLeaf("z1"), FormulaLeaf("z2")),
                           FormulaLeaf("z1"))
    /\ res = Returns(arg.formula)

-----------------------------------------------------------------------------
(* propositions/semantics.py and tautology.py : sound inference rules       *)

\* evaluate_inference: the rule fails in a model only when its conclusion is
\* False there and none of its assumptions is
evaluate_inference(rule, model) ==
    LET false_flag == \E i \in 1..Len(rule.assumptions) :
                          ~ evaluate(rule.assumptions[i], model)
    IN  ~ (~ evaluate(rule.conclusion, model) /\ ~ false_flag)

is_sound_inference(rule) ==
    IF Len(rule.assumptions) = 0 THEN is_tautology(rule.conclusion)
    ELSE LET models == all_models(sorted(RuleVariables(rule)))
         IN  \A k \in 1..Len(models) : evaluate_inference(rule, models[k])

RECURSIVE encode_as_formula(_)
encode_as_formula(rule) ==
    IF Len(rule.assumptions) = 0 THEN rule.conclusion
    ELSE IF Len(rule.assumptions) > 1
        THEN Implies(rule.assumptions[1],
                     encode_as_formula(InferenceRule(Tail(rule.assumptions),
                                                     rule.conclusion)))
    ELSE Implies(rule.assumptions[1], rule.conclusion)

RECURSIVE SecondOf(_, _)
\* my_formula after n passes of the loop: n times .second
SecondOf(formula, n) ==
    IF n = 0 THEN formula ELSE SecondOf(Second(formula), n - 1)

\* the Modus-Ponens line cites the implication first and the assumption second
CitationsSwapped(length, index) ==
    <<length - 1 + 2 * index, length - 1 + 2 * index + 1>>

\* [index_start, index_end] of pass number index, after a proof of length lines
Citations(length, index) ==
    <<length - 1 + 2 * index + 1, length - 1 + 2 * index>>

\* the lines appended by the loop: pass number index (from 0) appends the
\* assumption and the Modus-Ponens line that detaches it
AppendedLines(rule, my_formula, length) ==
    [j \in 1..(2 * Len(rule.assumptions)) |->
        IF j % 2 = 1 THEN AssumptionLine(rule.assumptions[(j + 1) \div 2])
        ELSE RuleLine(SecondOf(my_formula, j \div 2), MP,
                      Citations(length, (j \div 2) - 1))]

\* lines = list(proof_t.lines) followed by what the loop appends
LinesOfSoundInference(rule, my_formula, lines) ==
    lines \o AppendedLines(rule, my_formula, Len(lines))

prove_sound_inference(rule) ==
    LET my_formula == encode_as_formula(rule)
    IN  Proof(rule, AXIOMATIC_SYSTEM,
              LinesOfSoundInference(rule, my_formula,
                                    prove_tautology(my_formula, EmptyMap).lines))

-----------------------------------------------------------------------------
(* Sound inference rules with up to MaxAssumptions assumptions are proved.  *)

MaxAssumptions == 2

\* the formulae the rules are made of
RuleFormulas ==
    { FormulaLeaf("p"), FormulaLeaf("q"), Not(FormulaLeaf("p")), Not(FormulaLeaf("q")),
      Implies(FormulaLeaf("p"), FormulaLeaf("q")),
      Not(Implies(FormulaLeaf("p"), FormulaLeaf("q"))) }

InputRules ==
    UNION { {InferenceRule(a, c) : a \in [1..k -> RuleFormulas], c \in RuleFormulas} :
            k \in 0..MaxAssumptions }

InitSound ==
    /\ op = "init"
    /\ proof = NoProof
    /\ arg \in InputRules
    /\ res = NoProof

CallEncodeAsFormula ==
    /\ op = "init"
    /\ op' = "encode_as_formula"
    /\ res' = encode_as_formula(arg)
    /\ UNCHANGED <<proof, arg>>

\* prove_sound_inference asserts that the rule is sound
CallProveSoundInference ==
    /\ op = "init"
    /\ is_sound_inference(arg)
    /\ op' = "prove_sound_inference"
    /\ res' = prove_sound_inference(arg)
    /\ UNCHANGED <<proof, arg>>

NextSound ==
    \/ CallEncodeAsFormula
    \/ CallProveSoundInference

SpecSound == InitSound /\ [][NextSound]_vars

RECURSIVE ImplicationChain(_, _)
\* (a1->(a2->...(ak->c))), the conclusion alone when there is no assumption
ImplicationChain(assumptions, conclusion) ==
    IF assumptions = <<>> THEN conclusion
    ELSE <<"->", Head(assumptions), ImplicationChain(Tail(assumptions), conclusion)>>

\* the rule holds in every total assignment to its variables
IsSound(rule) ==
    \A m \in [RuleVariables(rule) -> BOOLEAN] :
        (\A i \in 1..Len(rule.assumptions) : evaluate(rule.assumptions[i], m))
            => evaluate(rule.conclusion, m)

\* C24: for a sound inference rule r over '->' and '~' with k >= 0 assumptions,
\* prove_sound_inference(r) is a valid proof with statement r: the lines of the
\* proof of the implication chain (a1->(a2->...(ak->c))), then for each
\* assumption in order one assumption line and one Modus-Ponens line citing it
\* and the previous implication line, the last line being c.
C24_ProveSoundInference ==
    /\ op = "encode_as_formula" =>
          res = ImplicationChain(arg.assumptions, arg.conclusion)
    /\ op = "init" => (is_sound_inference(arg) <=> IsSound(arg))
    /\ op = "prove_sound_inference" =>
          LET chain == ImplicationChain(arg.assumptions, arg.conclusion)
              proof_t == prove_tautology(chain, EmptyMap)
              length == Len(proof_t.lines)
              k == Len(arg.assumptions)
          IN  /\ IsValid(res)
              /\ res.statement = arg
              /\ IsValid(proof_t)
              /\ proof_t.statement = InferenceRule(<<>>, chain)
              /\ Len(res.lines) = length + 2 * k
              /\ SubSeq(res.lines, 1, length) = proof_t.lines
              /\ \A i \in 1..k :
                    /\ res.lines[length + 2 * i - 1] = AssumptionLine(arg.assumptions[i])
                    /\ res.lines[length + 2 * i].rule = MP
                    /\ ~ res.lines[length + 2 * i].is_assumption
                    /\ res.lines[length + 2 * i].assumptions =
                          <<length + 2 * i - 2, length + 2 * i - 3>>
              /\ res.lines[Len(res.lines)].formula = arg.conclusion

\* C24 witness: a sound rule with two assumptions, p, (p->q) ==> q, has been
\* proved: two assumption lines and two Modus-Ponens lines were appended
C24_WitnessTwoAssumptions ==
    /\ op = "prove_sound_inference"
    /\ arg = InferenceRule(<<FormulaLeaf("p"),
                             Implies(FormulaLeaf("p"), FormulaLeaf("q"))>>,
                           FormulaLeaf("q"))
    /\ IsValid(res)
    /\ res.lines[Len(res.lines)] =
          RuleLine(FormulaLeaf("q"), MP, <<Len(res.lines) - 2, Len(res.lines) - 3>>)

=============================================================================
